---- MODULE Spec2Model ----
(***************************************************************************)
(* Model of the vkw device-memory sub-allocator (src/src/vkw/Allocator.cpp, *)
(* src/include/vkw/Allocator.h): the chunk chain of a DMemBlock, the       *)
(* per-kind pools of the Allocator, the native memory objects behind them  *)
(* and the tokens (SingleAllocation) held by callers.                      *)
(***************************************************************************)
EXTENDS Integers, Naturals, Sequences, FiniteSets, TLC

VARIABLES
    m_pools,                     \* Allocator::m_pools: kind -> (slot -> block or nullptr)
    m_best_fit,                  \* Allocator::m_best_fit
    m_buffer_image_granularity,  \* Allocator::m_buffer_image_granularity
    m_integrated_gpu,            \* Allocator::m_integrated_gpu
    m_types,                     \* Allocator::m_types
    m_heaps,                     \* Allocator::m_heaps
    tokens,                      \* the valid SingleAllocations held by callers
    memory,                      \* contents of the native memory objects, by handle
    written,                     \* the data last written through each held token, in write order
    stale,                       \* the copies callers kept of tokens they have freed
    maps,                        \* by handle, the map_memory calls not yet matched by unmap_memory
    native,                      \* the native calls made by the last operation
    last,                        \* the last operation, its arguments and its result
    aborted,                     \* abort() was called
    threads,                     \* each caller thread's position in its call and its locals
    m_pool_mtx,                  \* Allocator::m_pool_mtx: kind -> the thread holding the mutex
    m_mtx,                       \* DMemBlock::m_mtx of the locked blocks: handle -> the holder
    m_retiring                   \* Device::m_retiring: the queued collectors and their counts

vars == <<m_pools, m_best_fit, m_buffer_image_granularity, m_integrated_gpu,
          m_types, m_heaps, tokens, memory, written, stale, maps, native, last,
          aborted, threads, m_pool_mtx, m_mtx, m_retiring>>

config == <<m_best_fit, m_buffer_image_granularity, m_integrated_gpu, m_types, m_heaps>>

sync == <<threads, m_pool_mtx, m_mtx>>

----------------------------------------------------------------------------
(* Bounds of the model *)

AddrBits == 10          \* width of the modelled VkDeviceAddress / VkDeviceSize
BlockCapacity == 6      \* capacity of the block of the one-block harness
MaxRequest == 2         \* request sizes 1..MaxRequest in the one-block harness
MaxAlignLog == 1        \* alignments 2^0 .. 2^MaxAlignLog
GranLog == 1            \* bufferImageGranularity is 2^GranLog
MaxCounter == 5         \* explored values of DMemBlock::m_counter
FitCapacity == 162      \* capacity of the block of the fit-policy harness
FitMaxCounter == 7      \* explored values of m_counter in the fit-policy harness
HostBlockShift == 3     \* log2 of the preferred size of a host-visible block (24 in the source)
DeviceBlockShift == 5   \* log2 of the preferred size of any other block (26 in the source)
MaxBlocks == 2          \* explored blocks per pool
MaxTokens == 3          \* tokens the callers hold at a time
NumThreads == 2         \* threads calling into the allocator

\* F at the value of v, which is computed once however often F uses it
With(v, F(_)) == CHOOSE y \in {F(x) : x \in {v}} : TRUE

Pow2(n) == 2 ^ n

RequestSizes == 1 .. MaxRequest
Alignments == {Pow2(k) : k \in 0 .. MaxAlignLog}
Granularity == Pow2(GranLog)
FitSizes == {1, 10, 100}

----------------------------------------------------------------------------
(* Unsigned arithmetic of the address type *)

Wrap(x) == x % Pow2(AddrBits)

RECURSIVE BitAnd(_, _)
BitAnd(a, b) ==
    IF a = 0 \/ b = 0 THEN 0
    ELSE 2 * BitAnd(a \div 2, b \div 2) + (IF a % 2 = 1 /\ b % 2 = 1 THEN 1 ELSE 0)

BitNot(a) == (Pow2(AddrBits) - 1) - a

align_down(offset, alignment) == BitAnd(offset, BitNot(Wrap(alignment - 1)))

align_up_NoRounding(offset, alignment) == offset

align_up(offset, alignment) == align_down(Wrap(offset + alignment - 1), alignment)

on_same_page(a_offset, a_size, b_offset, page_size) ==
    LET a_end == Wrap(a_offset + a_size - 1)
        a_page_end == align_down(a_end, page_size)
        b_page_start == align_down(b_offset, page_size)
    IN a_page_end = b_page_start

----------------------------------------------------------------------------
(* Subchunk and DMemBlock *)

Free == "Free"
Linear == "Linear"
Image == "Image"

has_conflict(value, other) == value # Free /\ other # Free /\ value # other

VK_NULL_HANDLE == 0
nullptr == 0

\* An empty unique_ptr<DMemBlock>
nullptr_block ==
    [m_handle |-> VK_NULL_HANDLE, m_size |-> 0, m_best_fit |-> FALSE, m_map_count |-> 0,
     m_counter |-> 0, m_address |-> nullptr, m_chunks |-> <<>>]

DMemBlock(handle, size, best_fit) ==
    [m_handle |-> handle, m_size |-> size, m_best_fit |-> best_fit, m_map_count |-> 0,
     m_counter |-> 2, m_address |-> nullptr,
     m_chunks |-> (1 :> [m_size |-> size, m_offset |-> 0, m_ty |-> Free,
                         m_prev |-> 0, m_next |-> 0])]

UINT64_MAX == Pow2(AddrBits) - 1

next_chunk_id_Unchecked(block) ==
    [id |-> block.m_counter, m_counter |-> Wrap(block.m_counter + 1)]

\* the id returned, and the counter afterwards
next_chunk_id(block) ==
    IF block.m_counter = UINT64_MAX
    THEN [id |-> 0, m_counter |-> block.m_counter]
    ELSE [id |-> block.m_counter, m_counter |-> block.m_counter + 1]

RECURSIVE SumSizes(_, _)
SumSizes(chunks, ids) ==
    IF ids = {} THEN 0
    ELSE LET id == CHOOSE i \in ids : TRUE
         IN chunks[id].m_size + SumSizes(chunks, ids \ {id})

allocated_Zero(block) == 0

\* DMemBlock::allocated(): the bytes of the chunks that are not Free
allocated(block) ==
    SumSizes(block.m_chunks, {id \in DOMAIN block.m_chunks : block.m_chunks[id].m_ty # Free})

merge_free_chunks_KeepBackLink(chunks, li, ri) ==
    LET right == chunks[ri]
        c1 == [chunks EXCEPT ![li].m_next = right.m_next,
                             ![li].m_size = chunks[li].m_size + right.m_size]
    IN [id \in DOMAIN c1 \ {ri} |-> c1[id]]

merge_free_chunks(chunks, li, ri) ==
    LET right == chunks[ri]
        c1 == [chunks EXCEPT ![li].m_next = right.m_next,
                             ![li].m_size = chunks[li].m_size + right.m_size]
        c2 == IF right.m_next # 0 THEN [c1 EXCEPT ![right.m_next].m_prev = li] ELSE c1
    IN [id \in DOMAIN c2 \ {ri} |-> c2[id]]

----------------------------------------------------------------------------
(* DMemBlock::allocate *)

NoBest == [id |-> 0, offset |-> 0, chunk_size |-> UINT64_MAX, aligned_size |-> UINT64_MAX]

\* The body of the scan loop for one chunk: whether the chunk is a valid
\* candidate, and the offset and the aligned size computed for it.
VisitChunk(chunks, id, size, alignment, granularity) ==
    LET chunk == chunks[id]
        offset0 == align_up(chunk.m_offset, alignment)
        offset == IF chunk.m_prev # 0
                     /\ has_conflict(chunk.m_ty, chunks[chunk.m_prev].m_ty)
                     /\ on_same_page(chunks[chunk.m_prev].m_offset,
                                     chunks[chunk.m_prev].m_size, offset0, granularity)
                  THEN align_up(offset0, granularity)
                  ELSE offset0
        padding == Wrap(offset - chunk.m_offset)
        aligned_size == Wrap(padding + size)
    IN IF ~(chunk.m_ty = Free /\ chunk.m_size >= size)
       THEN [valid |-> FALSE, offset |-> 0, aligned_size |-> 0]
       ELSE IF chunk.m_size < aligned_size
       THEN [valid |-> FALSE, offset |-> offset, aligned_size |-> aligned_size]
       ELSE IF chunk.m_next # 0
               /\ has_conflict(chunk.m_ty, chunks[chunk.m_next].m_ty)
               /\ on_same_page(offset, size, chunks[chunk.m_next].m_offset, granularity)
       THEN [valid |-> FALSE, offset |-> offset, aligned_size |-> aligned_size]
       ELSE [valid |-> TRUE, offset |-> offset, aligned_size |-> aligned_size]

IsBetterFit_Larger(best_fit_id, chunk_size, best_chunk_size) ==
    best_fit_id = 0 \/ chunk_size > best_chunk_size

IsBetterFit(best_fit_id, chunk_size, best_chunk_size) ==
    best_fit_id = 0 \/ chunk_size < best_chunk_size

Min(S) == CHOOSE x \in S : \A y \in S : x <= y
Max(S) == CHOOSE x \in S : \A y \in S : x >= y

FirstKey_Descending(ids) == Max(ids)

\* std::map iterates in ascending key order
FirstKey(ids) == Min(ids)

\* for (auto& it : m_chunks), over the keys not yet visited
RECURSIVE ScanChunks(_, _, _, _, _, _)
ScanChunks(block, ids, best, size, alignment, granularity) ==
    IF ids = {} THEN best
    ELSE With(FirstKey(ids), LAMBDA id :
         With(VisitChunk(block.m_chunks, id, size, alignment, granularity), LAMBDA v :
            IF ~v.valid
            THEN ScanChunks(block, ids \ {id}, best, size, alignment, granularity)
            ELSE With(IF IsBetterFit(best.id, block.m_chunks[id].m_size, best.chunk_size)
                      THEN [id |-> id, offset |-> v.offset,
                            chunk_size |-> block.m_chunks[id].m_size,
                            aligned_size |-> v.aligned_size]
                      ELSE best, LAMBDA better :
                 IF block.m_best_fit = FALSE
                 THEN better
                 ELSE ScanChunks(block, ids \ {id}, better, size, alignment, granularity))))

TypeOf(linear) == IF linear THEN Linear ELSE Image

NoOut == [m_chunk_id |-> 0, m_size |-> 0, m_offset |-> 0]

SplitChunk_KeepParentSize(block, best, linear) ==
    LET parent_id == best.id
        next == next_chunk_id(block)
        child_id == next.id
        parent == block.m_chunks[parent_id]
        child == [m_size |-> best.aligned_size, m_offset |-> parent.m_offset,
                  m_ty |-> TypeOf(linear), m_prev |-> parent.m_prev, m_next |-> best.id]
        c1 == (child_id :> child) @@ block.m_chunks
        c2 == [c1 EXCEPT ![parent_id].m_prev = child_id,
                         ![parent_id].m_offset = Wrap(parent.m_offset + best.aligned_size)]
        c3 == IF child.m_prev # 0 THEN [c2 EXCEPT ![child.m_prev].m_next = child_id] ELSE c2
    IN IF child_id = 0
       THEN [ok |-> FALSE, block |-> block, out |-> NoOut]
       ELSE [ok |-> TRUE,
             block |-> [block EXCEPT !.m_chunks = c3, !.m_counter = next.m_counter],
             out |-> [m_chunk_id |-> child_id, m_size |-> best.aligned_size,
                      m_offset |-> best.offset]]

SplitChunk(block, best, linear) ==
    LET parent_id == best.id
        next == next_chunk_id(block)
        child_id == next.id
        parent == block.m_chunks[parent_id]
        child == [m_size |-> best.aligned_size, m_offset |-> parent.m_offset,
                  m_ty |-> TypeOf(linear), m_prev |-> parent.m_prev, m_next |-> best.id]
        c1 == (child_id :> child) @@ block.m_chunks
        c2 == [c1 EXCEPT ![parent_id].m_prev = child_id,
                         ![parent_id].m_offset = Wrap(parent.m_offset + best.aligned_size),
                         ![parent_id].m_size = Wrap(parent.m_size - best.aligned_size)]
        c3 == IF child.m_prev # 0 THEN [c2 EXCEPT ![child.m_prev].m_next = child_id] ELSE c2
    IN IF child_id = 0
       THEN [ok |-> FALSE, block |-> block, out |-> NoOut]
       ELSE [ok |-> TRUE,
             block |-> [block EXCEPT !.m_chunks = c3, !.m_counter = next.m_counter],
             out |-> [m_chunk_id |-> child_id, m_size |-> best.aligned_size,
                      m_offset |-> best.offset]]

UseChunk_KeepFree(block, best, linear) ==
    [ok |-> TRUE, block |-> block,
     out |-> [m_chunk_id |-> best.id, m_size |-> best.aligned_size, m_offset |-> best.offset]]

UseChunk(block, best, linear) ==
    [ok |-> TRUE,
     block |-> [block EXCEPT !.m_chunks[best.id].m_ty = TypeOf(linear)],
     out |-> [m_chunk_id |-> best.id, m_size |-> best.aligned_size, m_offset |-> best.offset]]

\* if (size > m_size - allocated()) return false;
HasRoom(block, size) == ~(size > block.m_size - allocated(block))

\* DMemBlock::allocate from the lock of m_mtx on
ScanAndSplit(block, size, alignment, linear, granularity) ==
    With(ScanChunks(block, DOMAIN block.m_chunks, NoBest, size, alignment, granularity),
         LAMBDA best :
            IF best.id = 0
            THEN [ok |-> FALSE, block |-> block, out |-> NoOut]
            ELSE IF best.chunk_size > best.aligned_size
            THEN SplitChunk(block, best, linear)
            ELSE UseChunk(block, best, linear))

DMemBlock_allocate(block, size, alignment, linear, granularity) ==
    IF ~HasRoom(block, size)
    THEN [ok |-> FALSE, block |-> block, out |-> NoOut]
    ELSE ScanAndSplit(block, size, alignment, linear, granularity)

----------------------------------------------------------------------------
(* DMemBlock::free *)

DMemBlock_free_NoPrevMerge(block, id) ==
    IF id \notin DOMAIN block.m_chunks THEN block
    ELSE LET c0 == [block.m_chunks EXCEPT ![id].m_ty = Free]
             next_id == c0[id].m_next
             c1 == IF next_id # 0 /\ c0[next_id].m_ty = Free
                   THEN merge_free_chunks(c0, id, next_id) ELSE c0
         IN [block EXCEPT !.m_chunks = c1]

DMemBlock_free_MergeAnyNext(block, id) ==
    IF id \notin DOMAIN block.m_chunks THEN block
    ELSE LET c0 == [block.m_chunks EXCEPT ![id].m_ty = Free]
             prev_id == c0[id].m_prev
             next_id == c0[id].m_next
             c1 == IF next_id # 0 THEN merge_free_chunks(c0, id, next_id) ELSE c0
             c2 == IF prev_id # 0 /\ c1[prev_id].m_ty = Free
                   THEN merge_free_chunks(c1, prev_id, id) ELSE c1
         IN [block EXCEPT !.m_chunks = c2]

DMemBlock_free(block, id) ==
    IF id \notin DOMAIN block.m_chunks THEN block
    ELSE LET c0 == [block.m_chunks EXCEPT ![id].m_ty = Free]
             prev_id == c0[id].m_prev
             next_id == c0[id].m_next
             c1 == IF next_id # 0 /\ c0[next_id].m_ty = Free
                   THEN merge_free_chunks(c0, id, next_id) ELSE c0
             c2 == IF prev_id # 0 /\ c1[prev_id].m_ty = Free
                   THEN merge_free_chunks(c1, prev_id, id) ELSE c1
         IN [block EXCEPT !.m_chunks = c2]

----------------------------------------------------------------------------
(* Tokens and the record of the last operation *)

SingleAllocation(chunk_id, block_index, type_index, mem, offset, size) ==
    [m_allocator |-> TRUE, m_chunk_id |-> chunk_id, m_block_index |-> block_index,
     m_type_index |-> type_index, m_memory |-> mem, m_offset |-> offset, m_size |-> size]

\* SingleAllocation::SingleAllocation()
InvalidAllocation ==
    [m_allocator |-> FALSE, m_chunk_id |-> 0, m_block_index |-> 0,
     m_type_index |-> 0, m_memory |-> VK_NULL_HANDLE, m_offset |-> 0, m_size |-> 0]

\* SingleAllocation::operator bool
IsValid(a) == a.m_allocator /\ a.m_chunk_id # 0 /\ a.m_size # 0

Request(size, alignment, linear) == [size |-> size, alignment |-> alignment, linear |-> linear]

NoRequest == Request(0, 1, TRUE)

NoLast == [op |-> "none", req |-> NoRequest, ok |-> FALSE, a |-> InvalidAllocation]

BlockAt(type_index, block_index) == m_pools[type_index][block_index]

Threads == 1 .. NumThreads
NoThread == 0

\* a thread that is in no call of the allocator
Idle ==
    [pc |-> "idle", op |-> "none",
     requirements |-> [size |-> 0, alignment |-> 1, memoryTypeBits |-> {}],
     flags |-> {}, dedicated |-> FALSE, type_index |-> 0, i |-> 0,
     a |-> InvalidAllocation, ret |-> FALSE, handle |-> VK_NULL_HANDLE,
     expect |-> [pool |-> <<>>, ret |-> FALSE, out |-> InvalidAllocation]]

\* no thread is in a call and no mutex is held
InitSync(types) ==
    /\ threads = [t \in Threads |-> Idle]
    /\ m_pool_mtx = [k \in DOMAIN types |-> NoThread]
    /\ m_mtx = <<>>

Slots(pool) == DOMAIN pool

\* the blocks that exist, as <<kind, slot>>
LiveBlocks ==
    {ix \in UNION {{<<k, i>> : i \in Slots(m_pools[k])} : k \in DOMAIN m_pools} :
        m_pools[ix[1]][ix[2]] # nullptr_block}

----------------------------------------------------------------------------
(* One block driven directly through DMemBlock::allocate and DMemBlock::free *)

OneType == (0 :> [propertyFlags |-> {"HOST_VISIBLE", "HOST_COHERENT"}, heapIndex |-> 0])
OneHeap == (0 :> [size |-> 4 * BlockCapacity])

\* an allocator whose one pool holds this block
InitWithBlock(block) ==
    /\ m_best_fit \in BOOLEAN
    /\ m_buffer_image_granularity = Granularity
    /\ m_integrated_gpu = FALSE
    /\ m_types = OneType
    /\ m_heaps = OneHeap
    /\ m_pools = (0 :> (0 :> block))
    /\ tokens = {}
    /\ memory = <<>>
    /\ written = <<>>
    /\ stale = {}
    /\ maps = <<>>
    /\ native = <<>>
    /\ last = NoLast
    /\ aborted = FALSE
    /\ m_retiring = <<>>
    /\ InitSync(OneType)

InitOneBlock(capacity) == InitWithBlock(DMemBlock(1, capacity, m_best_fit))

BlockAllocateWith(sizes, alignments, kinds, max_counter) ==
    \E size \in sizes, alignment \in alignments, linear \in kinds :
      \E r \in {DMemBlock_allocate(BlockAt(0, 0), size, alignment, linear,
                                    m_buffer_image_granularity)} :
        LET a == SingleAllocation(r.out.m_chunk_id, 0, 0, BlockAt(0, 0).m_handle,
                                  r.out.m_offset, r.out.m_size)
        IN /\ r.block.m_counter <= max_counter
           /\ m_pools' = [m_pools EXCEPT ![0][0] = r.block]
           /\ tokens' = IF r.ok THEN tokens \cup {a} ELSE tokens
           /\ last' = [op |-> "allocate", req |-> Request(size, alignment, linear),
                       ok |-> r.ok, a |-> IF r.ok THEN a ELSE InvalidAllocation]
           /\ UNCHANGED <<config, m_retiring, sync, memory, written, stale, maps, native, aborted>>

BlockAllocate == BlockAllocateWith(RequestSizes, Alignments, BOOLEAN, MaxCounter)

BlockFree ==
    \E a \in tokens :
        /\ m_pools' = [m_pools EXCEPT ![0][0] = DMemBlock_free(BlockAt(0, 0), a.m_chunk_id)]
        /\ tokens' = tokens \ {a}
        /\ last' = [op |-> "free", req |-> NoRequest, ok |-> TRUE, a |-> a]
        /\ UNCHANGED <<config, m_retiring, sync, memory, written, stale, maps, native, aborted>>

InitBlock == InitOneBlock(BlockCapacity)
NextBlock == BlockAllocate \/ BlockFree
SpecBlock == InitBlock /\ [][NextBlock]_vars

----------------------------------------------------------------------------
(* The chunk chain *)

Heads(block) == {id \in DOMAIN block.m_chunks : block.m_chunks[id].m_prev = 0}

\* the ids reached from id by next-links, in order (at most fuel of them)
RECURSIVE ChainFrom(_, _, _)
ChainFrom(chunks, id, fuel) ==
    IF id = 0 \/ id \notin DOMAIN chunks \/ fuel = 0 THEN <<>>
    ELSE <<id>> \o ChainFrom(chunks, chunks[id].m_next, fuel - 1)

Chain(block) ==
    IF Cardinality(Heads(block)) # 1 THEN <<>>
    ELSE ChainFrom(block.m_chunks, CHOOSE h \in Heads(block) : TRUE,
                   Cardinality(DOMAIN block.m_chunks) + 1)

Range(seq) == {seq[i] : i \in DOMAIN seq}

ChainCovers(block) ==
    LET ch == Chain(block)
        c == block.m_chunks
    IN /\ Len(ch) = Cardinality(DOMAIN c)
       /\ Range(ch) = DOMAIN c
       /\ Len(ch) >= 1
       /\ c[ch[1]].m_offset = 0
       /\ c[ch[Len(ch)]].m_next = 0
       /\ c[ch[Len(ch)]].m_offset + c[ch[Len(ch)]].m_size = block.m_size
       /\ \A i \in 1 .. Len(ch) - 1 :
            /\ c[ch[i]].m_offset + c[ch[i]].m_size = c[ch[i + 1]].m_offset
            /\ c[ch[i]].m_offset < c[ch[i + 1]].m_offset
            /\ c[ch[i + 1]].m_prev = ch[i]

\* C1: in every block the chunks reached by next-links from the chunk with
\* prev = 0 cover [0, capacity) exactly once, without gap or overlap, and the
\* prev/next links are mutually consistent and ascend in offset.
PartitionInvariant ==
    \A ix \in LiveBlocks : ChainCovers(BlockAt(ix[1], ix[2]))

\* C1 witness: after a free merged two chunks, a chain of at least three
\* chunks whose first and last are in use and that has a Free chunk between
PartitionWitness ==
    /\ last.op = "free"
    /\ LET block == BlockAt(0, 0)
           ch == Chain(block)
       IN /\ Len(ch) >= 3
          /\ block.m_counter >= Len(ch) + 2
          /\ block.m_chunks[ch[1]].m_ty # Free
          /\ block.m_chunks[ch[Len(ch)]].m_ty # Free
          /\ \E i \in 1 .. Len(ch) : block.m_chunks[ch[i]].m_ty = Free

----------------------------------------------------------------------------
(* Tokens against chunks *)

TokensOf(type_index, block_index) ==
    {a \in tokens : a.m_type_index = type_index /\ a.m_block_index = block_index}

ChunkOf(a) == BlockAt(a.m_type_index, a.m_block_index).m_chunks[a.m_chunk_id]

\* the size the token was requested with: m_size is padding + size and
\* m_offset is the chunk's offset + padding
RequestedSize(a) == a.m_size - (a.m_offset - ChunkOf(a).m_offset)

\* C2: the byte ranges [offset, offset + size) of two live tokens of one block,
\* taken from the tokens' own fields, do not overlap.
NoTokenOverlap ==
    \A a, b \in tokens :
        (a # b /\ a.m_type_index = b.m_type_index /\ a.m_block_index = b.m_block_index)
            => (a.m_offset + a.m_size <= b.m_offset \/ b.m_offset + b.m_size <= a.m_offset)

\* C3: a token returned by a successful allocate has an offset that is a
\* multiple of the alignment requested for it.
AlignmentHolds ==
    (last.op = "allocate" /\ last.ok) => last.a.m_offset % last.req.alignment = 0

\* C3 witness: an allocation aligned to more than 1 whose chunk starts at an
\* unaligned offset, so that the token was moved up by padding
AlignmentWitness ==
    /\ last.op = "allocate" /\ last.ok
    /\ last.req.alignment > 1
    /\ last.a \in tokens
    /\ ChunkOf(last.a).m_offset % last.req.alignment # 0
    /\ last.a.m_offset > ChunkOf(last.a).m_offset

PageOf(address) == address \div m_buffer_image_granularity

NoAdjacentFree(block) ==
    \A id \in DOMAIN block.m_chunks :
        LET chunk == block.m_chunks[id]
        IN (chunk.m_ty = Free /\ chunk.m_next # 0) => block.m_chunks[chunk.m_next].m_ty # Free

IsOneFreeChunk(block) ==
    /\ Cardinality(DOMAIN block.m_chunks) = 1
    /\ \A id \in DOMAIN block.m_chunks :
        /\ block.m_chunks[id].m_ty = Free
        /\ block.m_chunks[id].m_offset = 0
        /\ block.m_chunks[id].m_size = block.m_size

\* C5: no two chain-adjacent chunks of a block are both Free, and a block all
\* of whose allocations have been freed is one Free chunk [0, capacity).
Coalesced ==
    \A ix \in LiveBlocks :
        /\ NoAdjacentFree(BlockAt(ix[1], ix[2]))
        /\ TokensOf(ix[1], ix[2]) = {} => IsOneFreeChunk(BlockAt(ix[1], ix[2]))

\* C5 witness: the last of at least three allocations split off the block has
\* just been freed
CoalescedWitness ==
    /\ last.op = "free"
    /\ tokens = {}
    /\ BlockAt(0, 0).m_counter >= 5
    /\ IsOneFreeChunk(BlockAt(0, 0))

RECURSIVE SumTokenSizes(_)
SumTokenSizes(toks) ==
    IF toks = {} THEN 0
    ELSE LET a == CHOOSE x \in toks : TRUE
         IN a.m_size + SumTokenSizes(toks \ {a})

InUse(block) == {id \in DOMAIN block.m_chunks : block.m_chunks[id].m_ty # Free}

\* C25: in every block the live tokens and the non-Free chunks correspond one
\* to one: the chunk ids of the block's live tokens are distinct and are
\* exactly the ids of its non-Free chunks, each token's size is the size of
\* its chunk, and allocated() is the sum of the sizes of the live tokens.
TokensMatchChunks ==
    \A ix \in LiveBlocks :
        LET block == BlockAt(ix[1], ix[2])
            toks == TokensOf(ix[1], ix[2])
        IN /\ {a.m_chunk_id : a \in toks} = InUse(block)
           /\ Cardinality(toks) = Cardinality(InUse(block))
           /\ \A a \in toks : block.m_chunks[a.m_chunk_id].m_size = a.m_size
           /\ allocated(block) = SumTokenSizes(toks)

\* C25 witness: three live tokens beside a Free chunk, one of them padded
\* and one older than the last two ids issued
TokensMatchWitness ==
    /\ Cardinality(tokens) = 3
    /\ \E a \in tokens : a.m_offset > ChunkOf(a).m_offset
    /\ \E a \in tokens : a.m_chunk_id < BlockAt(0, 0).m_counter - 2
    /\ \E id \in DOMAIN BlockAt(0, 0).m_chunks : BlockAt(0, 0).m_chunks[id].m_ty = Free

----------------------------------------------------------------------------
(* The fit policies, on a block large enough for free chunks of 100, 10, 50 *)

FitAllocate == BlockAllocateWith(FitSizes, {1}, {TRUE}, FitMaxCounter)

InitFit == InitOneBlock(FitCapacity)
NextFit == FitAllocate \/ BlockFree
SpecFit == InitFit /\ [][NextFit]_vars

CeilTo(x, alignment) == ((x + alignment - 1) \div alignment) * alignment

\* a Free chunk in which the request fits once aligned up from the chunk's start
CanHold(chunk, req) ==
    /\ chunk.m_ty = Free
    /\ CeilTo(chunk.m_offset, req.alignment) + req.size <= chunk.m_offset + chunk.m_size

Candidates(block, req) ==
    {id \in DOMAIN block.m_chunks : CanHold(block.m_chunks[id], req)}

\* the chunks of the block in which the byte at offset lies
ChunksAt(block, offset) ==
    {id \in DOMAIN block.m_chunks :
        /\ block.m_chunks[id].m_offset <= offset
        /\ offset < block.m_chunks[id].m_offset + block.m_chunks[id].m_size}

RECURSIVE FreeSizesOf(_, _)
FreeSizesOf(chunks, ch) ==
    IF ch = <<>> THEN <<>>
    ELSE (IF chunks[Head(ch)].m_ty = Free THEN <<chunks[Head(ch)].m_size>> ELSE <<>>)
         \o FreeSizesOf(chunks, Tail(ch))

\* the sizes of the Free chunks, in chain order
FreeSizes(block) == FreeSizesOf(block.m_chunks, Chain(block))

BestFitStep ==
    LET pre == BlockAt(0, 0)
        post == BlockAt(0, 0)'
        req == last'.req
        cands == Candidates(pre, req)
    IN (last'.op = "allocate" /\ m_best_fit) =>
        /\ last'.ok <=> cands # {}
        /\ last'.ok => \E id \in cands \cap ChunksAt(pre, last'.a.m_offset) :
                          \A c \in cands : pre.m_chunks[id].m_size <= pre.m_chunks[c].m_size
        /\ (FreeSizes(pre) = <<100, 10, 50>> /\ req.size = 10) =>
                /\ last'.ok
                /\ last'.a.m_chunk_id \in DOMAIN pre.m_chunks
                /\ pre.m_chunks[last'.a.m_chunk_id].m_size = 10
                /\ post.m_chunks[last'.a.m_chunk_id].m_size = 10
                /\ DOMAIN post.m_chunks = DOMAIN pre.m_chunks
                /\ FreeSizes(post) = <<100, 50>>

\* C8: under best-fit, allocate chooses a chunk of minimal size among the Free
\* chunks that can hold the aligned request; with free chunks of 100, 10, 50
\* and a 10-byte request the 10-byte chunk itself is returned, unsplit.
BestFitChoosesSmallest == [][BestFitStep]_vars

\* C8 witness: the 10-byte chunk between the free chunks of 100 and 50 has
\* just been taken whole by a 10-byte best-fit request
BestFitWitness ==
    /\ m_best_fit
    /\ last.op = "allocate" /\ last.ok /\ last.req.size = 10
    /\ last.a \in tokens
    /\ ChunkOf(last.a).m_size = 10
    /\ last.a.m_chunk_id < BlockAt(0, 0).m_counter - 1
    /\ FreeSizes(BlockAt(0, 0)) = <<100, 50>>
    /\ ChunkOf(last.a).m_offset > 100
    /\ ChunkOf(last.a).m_offset < FitCapacity - 50 - 10

FirstFitStep ==
    LET pre == BlockAt(0, 0)
        post == BlockAt(0, 0)'
        req == last'.req
        cands == Candidates(pre, req)
    IN (last'.op = "allocate" /\ ~m_best_fit) =>
        /\ last'.ok <=> cands # {}
        /\ last'.ok => Min(cands) \in ChunksAt(pre, last'.a.m_offset)
        /\ (FreeSizes(pre) = <<100, 10, 50>> /\ req.size = 10 /\ last'.ok) =>
                LET i == CHOOSE j \in 1 .. 3 :
                            pre.m_chunks[Min(cands)].m_offset
                                = pre.m_chunks[SelectSeq(Chain(pre),
                                      LAMBDA id : pre.m_chunks[id].m_ty = Free)[j]].m_offset
                IN FreeSizes(post) = [<<100, 10, 50>> EXCEPT ![i] = @ - 10]

\* C9 (amended): under first-fit, allocate chooses the valid Free chunk of
\* lowest chunk id (the iteration order of m_chunks); with free chunks of
\* 100, 10, 50 in chain order a 10-byte request shrinks the one of them whose
\* id is lowest by 10 bytes.
FirstFitChoosesLowestId == [][FirstFitStep]_vars

\* C9 witness: with free chunks of 100, 10, 50 the 10-byte first-fit request
\* was carved from the 50-byte chunk, the one of lowest id
FirstFitWitness ==
    /\ ~m_best_fit
    /\ last.op = "allocate" /\ last.ok /\ last.req.size = 10
    /\ last.a \in tokens
    /\ FreeSizes(BlockAt(0, 0)) = <<100, 10, 40>>
    /\ last.a.m_chunk_id = BlockAt(0, 0).m_counter - 1
    /\ ChunkOf(last.a).m_next = 1
    /\ BlockAt(0, 0).m_chunks[1].m_size = 40

FirstFitChainStep ==
    LET pre == BlockAt(0, 0)
        post == BlockAt(0, 0)'
        req == last'.req
        cands == Candidates(pre, req)
    IN (last'.op = "allocate" /\ ~m_best_fit) =>
        /\ last'.ok =>
              \E id \in cands \cap ChunksAt(pre, last'.a.m_offset) :
                  \A c \in cands : pre.m_chunks[id].m_offset <= pre.m_chunks[c].m_offset
        /\ (FreeSizes(pre) = <<100, 10, 50>> /\ req.size = 10) =>
              (last'.ok /\ FreeSizes(post) = <<90, 10, 50>>)

\* C9 as claimed: under first-fit, allocate chooses the first valid Free chunk
\* in chain order; with free chunks of 100, 10, 50 a 10-byte request always
\* splits the 100-byte chunk and leaves 90 bytes of it Free.
FirstFitChoosesChainFirst == [][FirstFitChainStep]_vars

----------------------------------------------------------------------------
(* Use of a whole chunk, and split *)

FlipOrSplitStep ==
    LET pre == BlockAt(0, 0)
        post == BlockAt(0, 0)'
        req == last'.req
        a == last'.a
    IN (last'.op = "allocate" /\ last'.ok) =>
        \E c \in ChunksAt(pre, a.m_offset) :
          LET old == pre.m_chunks[c]
              need == CeilTo(old.m_offset, req.alignment) - old.m_offset + req.size
          IN /\ old.m_ty = Free
             /\ a.m_size = need
             /\ IF old.m_size = need
                THEN /\ a.m_chunk_id = c
                     /\ post.m_counter = pre.m_counter
                     /\ post.m_chunks = [pre.m_chunks EXCEPT ![c].m_ty = TypeOf(req.linear)]
                ELSE /\ a.m_chunk_id \notin DOMAIN pre.m_chunks
                     /\ a.m_chunk_id # 0
                     /\ DOMAIN post.m_chunks = DOMAIN pre.m_chunks \cup {a.m_chunk_id}
                     /\ post.m_chunks[a.m_chunk_id]
                          = [m_size |-> need, m_offset |-> old.m_offset,
                             m_ty |-> TypeOf(req.linear), m_prev |-> old.m_prev, m_next |-> c]
                     /\ post.m_chunks[c]
                          = [old EXCEPT !.m_prev = a.m_chunk_id,
                                        !.m_offset = old.m_offset + need,
                                        !.m_size = old.m_size - need]
                     /\ \A id \in DOMAIN pre.m_chunks \ {c} :
                          post.m_chunks[id]
                            = IF id = old.m_prev
                              THEN [pre.m_chunks[id] EXCEPT !.m_next = a.m_chunk_id]
                              ELSE pre.m_chunks[id]

\* C27: when the chosen Free chunk's size is padding + size, allocate mints no
\* id and changes only the chunk's kind, from Free to the requested kind;
\* otherwise it links a new chunk of size padding + size, of a new id, right
\* before the chosen chunk, which keeps its id, stays Free, starts padding +
\* size later and shrinks by padding + size; no other chunk changes but the
\* forward link of the chunk before.
FlipOrSplit == [][FlipOrSplitStep]_vars

\* C27 witness: a padded request has just taken a whole Free chunk between
\* two chunks in use, with no id minted
FlipWitness ==
    /\ last.op = "allocate" /\ last.ok
    /\ last.a \in tokens
    /\ last.a.m_chunk_id < BlockAt(0, 0).m_counter - 1
    /\ last.a.m_offset > ChunkOf(last.a).m_offset
    /\ ChunkOf(last.a).m_prev # 0 /\ ChunkOf(last.a).m_next # 0

----------------------------------------------------------------------------
(* The ids of the chunks, up to the exhaustion of the counter *)

IdsLeft == 3

\* a block after allocate and free have taken turns until the counter is at
\* m_counter: each free merged the chunk that was left into the chunk of the
\* id minted last, which is the one Free chunk of the block
WornBlock(handle, size, best_fit, m_counter) ==
    [DMemBlock(handle, size, best_fit) EXCEPT
        !.m_counter = m_counter,
        !.m_chunks = (m_counter - 1) :> [m_size |-> size, m_offset |-> 0, m_ty |-> Free,
                                         m_prev |-> 0, m_next |-> 0]]

InitIds == InitWithBlock(WornBlock(1, BlockCapacity, m_best_fit, UINT64_MAX - IdsLeft))

IdsAllocate == BlockAllocateWith(RequestSizes, {1}, {TRUE}, UINT64_MAX)

NextIds == IdsAllocate \/ BlockFree

SpecIds == InitIds /\ [][NextIds]_vars

IdsStep ==
    LET pre == BlockAt(0, 0)
        post == BlockAt(0, 0)'
        minted == DOMAIN post.m_chunks \ DOMAIN pre.m_chunks
    IN /\ \A id \in DOMAIN pre.m_chunks : id # 0 /\ id < pre.m_counter
       /\ \A id \in DOMAIN post.m_chunks : id # 0 /\ id < post.m_counter
       /\ post.m_counter >= pre.m_counter
       /\ \A id \in minted : id = pre.m_counter /\ post.m_counter = id + 1
       /\ pre.m_counter = UINT64_MAX =>
            /\ minted = {}
            /\ (last'.op = "allocate" /\ last'.ok) =>
                  pre.m_chunks[last'.a.m_chunk_id].m_size = last'.a.m_size
            /\ (last'.op = "allocate" /\ ~last'.ok) => post = pre

\* C28: the id a split mints is the value of the block's counter, which is
\* above every id the block holds or has held and is never 0, and the counter
\* then moves one up and never down; when the counter is exhausted no id is
\* minted: an allocate that would split fails and leaves the block as it
\* was, and only a whole Free chunk can still be taken.
IdsIncrease == [][IdsStep]_vars

\* C28 witness: with the counter exhausted, an allocate that a Free chunk
\* could have held with a split has just failed
IdsExhaustedWitness ==
    /\ BlockAt(0, 0).m_counter = UINT64_MAX
    /\ last.op = "allocate" /\ ~last.ok
    /\ Candidates(BlockAt(0, 0), last.req) # {}
    /\ UINT64_MAX - 1 \in DOMAIN BlockAt(0, 0).m_chunks

----------------------------------------------------------------------------
(* The device: memory kinds, heaps and the driver *)

DEVICE_LOCAL == "DEVICE_LOCAL"
HOST_VISIBLE == "HOST_VISIBLE"
HOST_COHERENT == "HOST_COHERENT"
HOST_CACHED == "HOST_CACHED"
LAZILY_ALLOCATED == "LAZILY_ALLOCATED"

VK_SUCCESS == "VK_SUCCESS"
VK_ERROR_OUT_OF_DEVICE_MEMORY == "VK_ERROR_OUT_OF_DEVICE_MEMORY"
VK_ERROR_OUT_OF_HOST_MEMORY == "VK_ERROR_OUT_OF_HOST_MEMORY"
VK_ERROR_TOO_MANY_OBJECTS == "VK_ERROR_TOO_MANY_OBJECTS"

NO_SUCH_MEMTYPE == -1

Uninitialized == "?"

\* a discrete GPU: kind 0 is device-local, kind 1 is host-visible and coherent
DiscreteTypes ==
    (0 :> [propertyFlags |-> {DEVICE_LOCAL}, heapIndex |-> 0])
    @@ (1 :> [propertyFlags |-> {HOST_VISIBLE, HOST_COHERENT}, heapIndex |-> 1])

DiscreteHeaps ==
    (0 :> [size |-> 4 * Pow2(DeviceBlockShift)]) @@ (1 :> [size |-> 2 * Pow2(HostBlockShift)])

\* the handles of the native memory objects that exist
LiveHandles == {BlockAt(ix[1], ix[2]).m_handle : ix \in LiveBlocks}

\* the handle the driver gives to the next memory object
FreshHandle == Min({h \in 1 .. Cardinality(LiveHandles) + 1 : h \notin LiveHandles})

\* the results of the successive vkAllocateMemory calls of one operation:
\* out-of-memory for the first nfail calls, then the result after
DriverScript(nfail, after) ==
    [i \in 1 .. 5 |-> IF i <= nfail THEN VK_ERROR_OUT_OF_DEVICE_MEMORY ELSE after]

NativeCall(call, handle, size, type_index, result) ==
    [call |-> call, handle |-> handle, size |-> size, type_index |-> type_index,
     result |-> result]

----------------------------------------------------------------------------
(* Allocator *)

required_flags(usage) ==
    CASE usage = "DeviceLocal" -> IF m_integrated_gpu THEN {} ELSE {DEVICE_LOCAL}
      [] usage = "HostLocal" -> {HOST_VISIBLE, HOST_COHERENT}
      [] usage = "HostToDevice" -> {HOST_VISIBLE}
      [] usage = "HostCached" -> {HOST_VISIBLE}
      [] usage = "LazilyAllocated" -> {LAZILY_ALLOCATED}
      [] OTHER -> {}

preferred_flags(usage) ==
    CASE usage = "HostCached" -> {HOST_CACHED}
      [] OTHER -> {}

find_type_index_Highest(requirements, flags) ==
    LET found == {i \in DOMAIN m_types :
                    /\ i \in requirements.memoryTypeBits
                    /\ flags \subseteq m_types[i].propertyFlags}
    IN IF found = {} THEN NO_SUCH_MEMTYPE ELSE Max(found)

find_type_index(requirements, flags) ==
    LET found == {i \in DOMAIN m_types :
                    /\ i \in requirements.memoryTypeBits
                    /\ flags \subseteq m_types[i].propertyFlags}
    IN IF found = {} THEN NO_SUCH_MEMTYPE ELSE Min(found)

\* the result of one vkAllocateMemory call: the block made of it, or nullptr
create_memory_block(size, type_index, res, handle) ==
    [block |-> IF res = VK_SUCCESS THEN DMemBlock(handle, size, m_best_fit) ELSE nullptr_block,
     abort |-> res \notin {VK_SUCCESS, VK_ERROR_OUT_OF_DEVICE_MEMORY, VK_ERROR_OUT_OF_HOST_MEMORY},
     call |-> NativeCall("vkAllocateMemory", IF res = VK_SUCCESS THEN handle ELSE VK_NULL_HANDLE,
                         size, type_index, res)]

PoolSize(pool) == Cardinality(DOMAIN pool)

insert_block_AlwaysAppend(pool, block) ==
    [pool |-> (PoolSize(pool) :> block) @@ pool, index |-> PoolSize(pool)]

insert_block(pool, block) ==
    LET empty == {i \in DOMAIN pool : pool[i] = nullptr_block}
    IN IF empty # {}
       THEN [pool |-> [pool EXCEPT ![Min(empty)] = block], index |-> Min(empty)]
       ELSE [pool |-> (PoolSize(pool) :> block) @@ pool, index |-> PoolSize(pool)]

memblock_size(flags) ==
    IF HOST_VISIBLE \in flags THEN Pow2(HostBlockShift) ELSE Pow2(DeviceBlockShift)

BackoffSizes_NoHalving(size) == [i \in 1 .. 4 |-> size]

\* memblock_size >> i for i = 0 .. 3
BackoffSizes(size) == [i \in 1 .. 4 |-> size \div Pow2(i - 1)]

\* the loop over the backoff sizes: the calls made, the block created (or
\* nullptr) and whether a call aborted; script[n + 1] is the result of the
\* next vkAllocateMemory call
RECURSIVE CreateFirst(_, _, _, _, _, _)
CreateFirst(sizes, i, type_index, script, n, handle) ==
    IF i > Len(sizes) THEN [block |-> nullptr_block, abort |-> FALSE, calls |-> <<>>]
    ELSE LET c == create_memory_block(sizes[i], type_index, script[n + 1], handle)
         IN IF c.abort THEN [block |-> nullptr_block, abort |-> TRUE, calls |-> <<c.call>>]
            ELSE IF c.block # nullptr_block
            THEN [block |-> c.block, abort |-> FALSE, calls |-> <<c.call>>]
            ELSE With(CreateFirst(sizes, i + 1, type_index, script, n + 1, handle),
                      LAMBDA rest : [block |-> rest.block, abort |-> rest.abort,
                                     calls |-> <<c.call>> \o rest.calls])

ScanPool_None(pool, i, size, alignment, linear, type_index) ==
    [ok |-> FALSE, pool |-> pool, out |-> InvalidAllocation]

\* the loop over the existing blocks of the pool, from slot i on
RECURSIVE ScanPool(_, _, _, _, _, _)
ScanPool(pool, i, size, alignment, linear, type_index) ==
    IF i >= PoolSize(pool) THEN [ok |-> FALSE, pool |-> pool, out |-> InvalidAllocation]
    ELSE IF pool[i] = nullptr_block
    THEN ScanPool(pool, i + 1, size, alignment, linear, type_index)
    ELSE With(DMemBlock_allocate(pool[i], size, alignment, linear,
                                 m_buffer_image_granularity), LAMBDA r :
            IF r.ok
            THEN [ok |-> TRUE, pool |-> [pool EXCEPT ![i] = r.block],
                  out |-> SingleAllocation(r.out.m_chunk_id, i, type_index, pool[i].m_handle,
                                           r.out.m_offset, r.out.m_size)]
            ELSE ScanPool(pool, i + 1, size, alignment, linear, type_index))

Failure(pool) ==
    [ret |-> FALSE, abort |-> FALSE, pool |-> pool, out |-> InvalidAllocation, calls |-> <<>>]

\* the block a request that no existing block served is carved from: the one
\* of the first backoff size the driver granted, or one of the exact size
NewBlock(requirements, flags, type_index, is_dedicated, script, handle) ==
    With(IF is_dedicated
         THEN [block |-> nullptr_block, abort |-> FALSE, calls |-> <<>>]
         ELSE CreateFirst(BackoffSizes(memblock_size(flags)), 1, type_index, script, 0, handle),
         LAMBDA tried :
            IF tried.abort \/ tried.block # nullptr_block THEN tried
            ELSE LET exact == create_memory_block(requirements.size, type_index,
                                                  script[Len(tried.calls) + 1], handle)
                 IN [block |-> exact.block, abort |-> exact.block = nullptr_block,
                     calls |-> tried.calls \o <<exact.call>>])

IsDedicated_FlagIgnored(dedicated, requirements, flags) ==
    requirements.size > memblock_size(flags)

\* dedicated |= requirements.size > memblock_size;
IsDedicated(dedicated, requirements, flags) ==
    dedicated \/ requirements.size > memblock_size(flags)

HeapTooSmall_Never(heap_index, requirements) == FALSE

\* if (m_heaps[heap_index].size < requirements.size) return false;
HeapTooSmall(heap_index, requirements) == m_heaps[heap_index].size < requirements.size

\* Allocator::allocate(requirements, flags, type_index, linear, dedicated, out)
\* when the pool of type_index is pool
Allocator_allocate_in(pool, requirements, flags, type_index, linear, dedicated, script, handle) ==
    LET heap_index == m_types[type_index].heapIndex
        is_dedicated == IsDedicated(dedicated, requirements, flags)
    IN IF HeapTooSmall(heap_index, requirements) THEN Failure(pool)
       ELSE With(IF is_dedicated
                 THEN [ok |-> FALSE, pool |-> pool, out |-> InvalidAllocation]
                 ELSE ScanPool(pool, 0, requirements.size, requirements.alignment, linear,
                               type_index), LAMBDA scan :
            IF scan.ok
            THEN [ret |-> TRUE, abort |-> FALSE, pool |-> scan.pool, out |-> scan.out,
                  calls |-> <<>>]
            ELSE With(NewBlock(requirements, flags, type_index, is_dedicated, script, handle),
                      LAMBDA new :
                 IF new.abort
                 THEN [ret |-> FALSE, abort |-> TRUE, pool |-> pool, out |-> InvalidAllocation,
                       calls |-> new.calls]
                 ELSE With(insert_block(pool, new.block), LAMBDA ins :
                      With(DMemBlock_allocate(new.block, requirements.size,
                                              requirements.alignment, linear,
                                              m_buffer_image_granularity), LAMBDA r :
                        [ret |-> r.ok, abort |-> FALSE,
                         pool |-> [ins.pool EXCEPT ![ins.index] = r.block],
                         out |-> IF r.ok
                                 THEN SingleAllocation(r.out.m_chunk_id, ins.index, type_index,
                                                       new.block.m_handle, r.out.m_offset,
                                                       r.out.m_size)
                                 ELSE InvalidAllocation,
                         calls |-> new.calls]))))

\* Allocator::allocate(requirements, flags, type_index, linear, dedicated, out)
\* on the pool of type_index
Allocator_allocate(requirements, flags, type_index, linear, dedicated, script, handle) ==
    Allocator_allocate_in(m_pools[type_index], requirements, flags, type_index, linear,
                          dedicated, script, handle)

NoAllocation(type_index) ==
    [ret |-> FALSE, abort |-> FALSE, pool |-> <<>>, out |-> InvalidAllocation,
     calls |-> <<>>, type_index |-> type_index]

\* Allocator::allocate_defensive when the pools are pools
allocate_defensive_in(pools, requirements, r_flags, p_flags, linear, dedicated, script, handle) ==
    LET first == find_type_index(requirements, r_flags \cup p_flags)
        second == find_type_index(requirements, r_flags)
    IN With(IF first # NO_SUCH_MEMTYPE THEN first
            ELSE IF p_flags # {} THEN second ELSE NO_SUCH_MEMTYPE, LAMBDA type_index :
         IF type_index = NO_SUCH_MEMTYPE THEN NoAllocation(NO_SUCH_MEMTYPE)
         ELSE Allocator_allocate_in(pools[type_index], requirements, r_flags \cup p_flags,
                                    type_index, linear, dedicated, script, handle)
              @@ [type_index |-> type_index])

allocate_defensive(requirements, r_flags, p_flags, linear, dedicated, script, handle) ==
    allocate_defensive_in(m_pools, requirements, r_flags, p_flags, linear, dedicated, script,
                          handle)


\* Allocator::free with the dropping of invalid tokens left out; a block that
\* is not there ends the process
Allocator_free_Unchecked(a) ==
    LET pool == m_pools[a.m_type_index]
    IN IF a.m_block_index \notin DOMAIN pool \/ pool[a.m_block_index] = nullptr_block
       THEN [pool |-> pool, calls |-> <<>>, released |-> VK_NULL_HANDLE, abort |-> TRUE]
       ELSE [pool |-> [pool EXCEPT ![a.m_block_index] =
                            DMemBlock_free(pool[a.m_block_index], a.m_chunk_id)],
             calls |-> <<>>, released |-> VK_NULL_HANDLE, abort |-> FALSE]

\* Allocator::free when the pool of the token's kind is pool: the pool
\* afterwards and the native calls made
Allocator_free_in(pool, a) ==
    LET count == Cardinality({i \in DOMAIN pool : pool[i] # nullptr_block})
    IN IF ~IsValid(a)
       THEN [pool |-> pool, calls |-> <<>>, released |-> VK_NULL_HANDLE, abort |-> FALSE]
       ELSE IF pool[a.m_block_index] = nullptr_block
       THEN [pool |-> pool, calls |-> <<>>, released |-> VK_NULL_HANDLE, abort |-> TRUE]
       ELSE With(DMemBlock_free(pool[a.m_block_index], a.m_chunk_id), LAMBDA block :
       IF allocated(block) = 0 /\ count > 1
       THEN [pool |-> [pool EXCEPT ![a.m_block_index] = nullptr_block],
             calls |-> (IF block.m_address # nullptr
                        THEN <<NativeCall("vkUnmapMemory", block.m_handle, 0,
                                          a.m_type_index, VK_SUCCESS)>>
                        ELSE <<>>)
                       \o <<NativeCall("vkFreeMemory", block.m_handle, 0,
                                       a.m_type_index, VK_SUCCESS)>>,
             released |-> block.m_handle, abort |-> FALSE]
       ELSE [pool |-> [pool EXCEPT ![a.m_block_index] = block], calls |-> <<>>,
             released |-> VK_NULL_HANDLE, abort |-> FALSE])

\* Allocator::free on the pool of the token's kind
Allocator_free(a) == Allocator_free_in(m_pools[a.m_type_index], a)

----------------------------------------------------------------------------
(* The allocator driven through its public calls *)

Half == Pow2(HostBlockShift) \div 2
SpecSizes == {Half - 1, Pow2(HostBlockShift) + 1}
SpecAlignments == {1}
Usages == {"HostLocal"}
TypeBitSets == {{0, 1}}
BindResults == {VK_SUCCESS}
AllocateResults == {VK_SUCCESS}

\* Allocator::Allocator on a device of this type with these memory kinds and heaps
InitDeviceOf(integrated_gpu, types, heaps) ==
    /\ m_best_fit \in BOOLEAN
    /\ m_buffer_image_granularity = Granularity
    /\ m_integrated_gpu = integrated_gpu
    /\ m_types = types
    /\ m_heaps = heaps
    /\ m_pools = [k \in DOMAIN types |-> <<>>]
    /\ tokens = {}
    /\ memory = <<>>
    /\ written = <<>>
    /\ stale = {}
    /\ maps = <<>>
    /\ native = <<>>
    /\ last = NoLast
    /\ aborted = FALSE
    /\ m_retiring = <<>>
    /\ InitSync(types)

\* Allocator::Allocator on a discrete GPU
InitDevice(types, heaps) == InitDeviceOf(FALSE, types, heaps)

Init == InitDevice(DiscreteTypes, DiscreteHeaps)

\* the memory objects mem after the calls of one allocate or free: the
\* created one added, uninitialized
MemoryAfterIn(mem, calls) ==
    LET made == {i \in DOMAIN calls :
                    calls[i].call = "vkAllocateMemory" /\ calls[i].result = VK_SUCCESS}
        gone == {calls[i].handle : i \in {j \in DOMAIN calls : calls[j].call = "vkFreeMemory"}}
        kept == [h \in DOMAIN mem \ gone |-> mem[h]]
    IN IF made = {} THEN kept
       ELSE LET c == calls[CHOOSE i \in made : TRUE]
            IN (c.handle :> [i \in 0 .. c.size - 1 |-> Uninitialized]) @@ kept

\* the memory objects after the calls of one allocate or free
MemoryAfter(calls) == MemoryAfterIn(memory, calls)

CountersWithin(pool, max_counter) ==
    \A i \in DOMAIN pool : pool[i].m_counter <= max_counter

\* Allocator::allocate(VkBuffer or VkImage, MemoryUsage usage, SingleAllocation& out)
\* with an invalid out; the requirements are those the driver reports for the
\* resource, and bind_call is the call that binds the resource to the memory.
\* Both overloads pass true for linear.
AllocateResourceWith(bind_call, sizes, alignments, usages, bitsets, dedications, failures, max_tokens, max_counter) ==
    \E size \in sizes, alignment \in alignments, bits \in bitsets,
       usage \in usages, requires_dedicated \in dedications,
       nfail \in failures, after \in AllocateResults,
       bind \in BindResults :
      \E handle \in {FreshHandle} :
      \E r \in {allocate_defensive([size |-> size, alignment |-> alignment,
                                    memoryTypeBits |-> bits],
                                   required_flags(usage), preferred_flags(usage),
                                   TRUE, requires_dedicated, DriverScript(nfail, after),
                                   handle)} :
        LET bound == r.ret /\ bind = VK_SUCCESS
            abort == r.abort \/ (r.ret /\ bind # VK_SUCCESS)
            calls == r.calls \o (IF r.ret
                                 THEN <<NativeCall(bind_call, r.out.m_memory,
                                                   r.out.m_offset, r.type_index, bind)>>
                                 ELSE <<>>)
            req == [size |-> size, alignment |-> alignment, linear |-> TRUE,
                    memoryTypeBits |-> bits, usage |-> usage,
                    dedicated |-> requires_dedicated]
        IN /\ ~aborted
           /\ Cardinality(tokens) < max_tokens
           /\ (nfail = 0 /\ after = VK_SUCCESS) \/ r.calls # <<>>
           /\ bind = VK_SUCCESS \/ r.ret
           /\ r.type_index # NO_SUCH_MEMTYPE =>
                (/\ Cardinality({i \in DOMAIN r.pool : r.pool[i] # nullptr_block}) <= MaxBlocks
                 /\ CountersWithin(r.pool, max_counter))
           /\ native' = calls
           /\ last' = [op |-> "allocate", req |-> req, ok |-> bound,
                       a |-> IF bound THEN r.out ELSE InvalidAllocation]
           /\ aborted' = abort
           /\ IF abort \/ r.type_index = NO_SUCH_MEMTYPE
              THEN UNCHANGED <<m_pools, tokens, memory>>
              ELSE /\ m_pools' = [m_pools EXCEPT ![r.type_index] = r.pool]
                   /\ tokens' = IF r.ret THEN tokens \cup {r.out} ELSE tokens
                   /\ memory' = MemoryAfter(r.calls)
           /\ UNCHANGED <<config, m_retiring, sync, written, stale, maps>>

\* Allocator::allocate(VkBuffer buffer, MemoryUsage usage, SingleAllocation& out)
AllocateBufferWith(sizes, alignments, usages, bitsets, dedications, failures, max_tokens, max_counter) ==
    AllocateResourceWith("vkBindBufferMemory", sizes, alignments, usages, bitsets, dedications,
                         failures, max_tokens, max_counter)

\* Allocator::allocate(VkImage image, MemoryUsage usage, SingleAllocation& out)
AllocateImageWith(sizes, alignments, usages, bitsets, dedications, failures, max_tokens, max_counter) ==
    AllocateResourceWith("vkBindImageMemory", sizes, alignments, usages, bitsets, dedications,
                         failures, max_tokens, max_counter)

AllocateBuffer ==
    AllocateBufferWith(SpecSizes, SpecAlignments, Usages, TypeBitSets, BOOLEAN, 0 .. 5, MaxTokens,
                       MaxCounter)

\* the outstanding maps without those of the memory objects the calls free
MapsAfter(calls) ==
    LET gone == {calls[i].handle : i \in {j \in DOMAIN calls : calls[j].call = "vkFreeMemory"}}
    IN [h \in DOMAIN maps \ gone |-> maps[h]]

\* Allocator::free(SingleAllocation& a) with a token the caller holds; free
\* leaves the caller's token as it is, and the caller keeps the copy or not
FreeTokenWith(keeps) ==
    \E a \in tokens, keep \in keeps :
      \E r \in {Allocator_free(a)} :
           /\ ~aborted
           /\ m_pools' = [m_pools EXCEPT ![a.m_type_index] = r.pool]
           /\ tokens' = tokens \ {a}
           /\ memory' = MemoryAfter(r.calls)
           /\ maps' = MapsAfter(r.calls)
           /\ native' = r.calls
           /\ last' = [op |-> "free", req |-> NoRequest, ok |-> TRUE, a |-> a]
           /\ written' = SelectSeq(written, LAMBDA w : w.a # a)
           /\ stale' = (IF keep THEN {a} ELSE stale)
           /\ aborted' = r.abort
           /\ UNCHANGED <<config, m_retiring, sync>>

FreeToken == FreeTokenWith({FALSE})

Next == AllocateBuffer \/ FreeToken
Spec == Init /\ [][Next]_vars

----------------------------------------------------------------------------
(* Release of empty blocks and reuse of their slots *)

CallsOf(calls, name) == SelectSeq(calls, LAMBDA c : c.call = name)

HandlesOf(calls, name) == {c.handle : c \in Range(CallsOf(calls, name))}

Created(calls) ==
    SelectSeq(calls, LAMBDA c : c.call = "vkAllocateMemory" /\ c.result = VK_SUCCESS)

OccupiedSlots(pool) == {j \in DOMAIN pool : pool[j] # nullptr_block}

ReleaseStep ==
    LET a == last'.a
        k == a.m_type_index
        i == a.m_block_index
        pre == m_pools[k][i]
        others == OccupiedSlots(m_pools[k]) \ {i}
        emptied == {t \in tokens' : t.m_type_index = k /\ t.m_block_index = i} = {}
    IN last'.op = "free" =>
        IF emptied /\ others # {}
        THEN /\ m_pools'[k][i] = nullptr_block
             /\ HandlesOf(native', "vkFreeMemory") = {pre.m_handle}
             /\ pre.m_handle \notin DOMAIN memory'
        ELSE /\ m_pools'[k][i] # nullptr_block
             /\ m_pools'[k][i].m_handle = pre.m_handle
             /\ HandlesOf(native', "vkFreeMemory") = {}
             /\ pre.m_handle \in DOMAIN memory'
             /\ emptied => IsOneFreeChunk(m_pools'[k][i])

PlacementStep ==
    LET made == Created(native')
        k == made[1].type_index
        pool == m_pools[k]
        empty == DOMAIN pool \ OccupiedSlots(pool)
        slot == IF empty # {} THEN Min(empty) ELSE PoolSize(pool)
    IN (last'.op = "allocate" /\ ~aborted' /\ made # <<>>) =>
        /\ DOMAIN m_pools'[k] = DOMAIN pool \cup {slot}
        /\ m_pools'[k][slot].m_handle = made[1].handle
        /\ \A j \in DOMAIN pool \ {slot} : m_pools'[k][j] = pool[j]

\* C6: a free that leaves a block without allocation releases the block's
\* native memory and empties its slot when another block of the kind exists,
\* and keeps the block when it is the only one; the next block created for the
\* kind goes to the lowest-indexed empty slot before the pool grows.
ReleaseAndReuse == [][ReleaseStep /\ PlacementStep]_vars

\* C6 witness: a block was just created into slot 0 while slot 1 holds a
\* block, that is into the slot a released block left empty
ReleaseAndReuseWitness ==
    /\ last.op = "allocate" /\ ~aborted
    /\ Created(native) # <<>>
    /\ LET k == Created(native)[1].type_index
       IN /\ PoolSize(m_pools[k]) = 2
          /\ m_pools[k][0].m_handle = Created(native)[1].handle
          /\ m_pools[k][1] # nullptr_block

----------------------------------------------------------------------------
(* Backoff of the size of a new block *)

PreferredSize(req) ==
    memblock_size(required_flags(req.usage) \cup preferred_flags(req.usage))

IsOutOfMemory(res) ==
    res \in {VK_ERROR_OUT_OF_DEVICE_MEMORY, VK_ERROR_OUT_OF_HOST_MEMORY}

\* C7: for a pooled request the new-block attempts are made at X, X/2, X/4,
\* X/8 in that order, each only after the one before ended out of memory, and
\* stop at the first success: after failures at X and X/2 a success at X/4
\* creates a block of X/4 and no attempt at X/8 is made.
BackoffOrder ==
    LET attempts == CallsOf(native, "vkAllocateMemory")
        X == PreferredSize(last.req)
    IN (/\ last.op = "allocate"
        /\ ~last.req.dedicated /\ last.req.size <= X
        /\ attempts # <<>>) =>
            /\ \A i \in 1 .. Len(attempts) : i <= 4 => attempts[i].size = X \div Pow2(i - 1)
            /\ \A i \in 1 .. Len(attempts) - 1 : IsOutOfMemory(attempts[i].result)
            /\ (Len(attempts) >= 3 /\ attempts[3].result = VK_SUCCESS) =>
                    /\ Len(attempts) = 3
                    /\ \E ix \in LiveBlocks :
                        /\ BlockAt(ix[1], ix[2]).m_handle = attempts[3].handle
                        /\ BlockAt(ix[1], ix[2]).m_size = X \div 4

\* C7 witness: the driver failed at X and X/2 and a block of X/4 was created
BackoffWitness ==
    LET attempts == CallsOf(native, "vkAllocateMemory")
    IN /\ last.op = "allocate" /\ ~aborted
       /\ ~last.req.dedicated /\ last.req.size <= PreferredSize(last.req)
       /\ Len(attempts) = 3
       /\ IsOutOfMemory(attempts[1].result) /\ attempts[1].size = Pow2(HostBlockShift)
       /\ IsOutOfMemory(attempts[2].result)
       /\ attempts[3].result = VK_SUCCESS
       /\ \E ix \in LiveBlocks : BlockAt(ix[1], ix[2]).m_size = Pow2(HostBlockShift) \div 4

\* C14: when the driver answers out of memory to every new-block attempt of
\* a pooled request, the preferred size and its backoff sizes, allocate returns
\* failure without abort and leaves the pools as they were.
OutOfMemoryFails ==
    [][LET attempts == CallsOf(native', "vkAllocateMemory")
       IN (/\ last'.op = "allocate" /\ ~last'.req.dedicated
           /\ last'.req.size <= PreferredSize(last'.req)
           /\ Len(attempts) >= 4
           /\ \A i \in 1 .. Len(attempts) : IsOutOfMemory(attempts[i].result))
            => (~aborted' /\ ~last'.ok /\ m_pools' = m_pools)]_vars

\* the room left in a block
FreeBytes(block) == block.m_size - allocated(block)

\* C17: a request that is larger than the preferred block size or has its
\* dedication flag set, and returns a token, made one native allocation of
\* exactly its size, left every existing block as it was, and its token
\* covers the whole new block: offset 0 and size = capacity.
DedicatedBypassesPooling ==
    [][(/\ last'.op = "allocate" /\ last'.ok
        /\ (last'.req.dedicated \/ last'.req.size > PreferredSize(last'.req)))
            => LET attempts == CallsOf(native', "vkAllocateMemory")
                   a == last'.a
                   old == m_pools[a.m_type_index]
                   new == m_pools'[a.m_type_index]
               IN /\ Len(attempts) = 1
                  /\ attempts[1].size = last'.req.size
                  /\ attempts[1].result = VK_SUCCESS
                  /\ a.m_memory = attempts[1].handle
                  /\ a.m_offset = 0 /\ a.m_size = last'.req.size
                  /\ new[a.m_block_index].m_handle = a.m_memory
                  /\ new[a.m_block_index].m_size = last'.req.size
                  /\ a.m_block_index \in DOMAIN old => old[a.m_block_index] = nullptr_block
                  /\ \A i \in DOMAIN old : i # a.m_block_index => new[i] = old[i]]_vars

\* C17 witness: a request with the dedication flag got a block of its own
\* while another block of its kind had room for it
DedicatedWitness ==
    /\ last.op = "allocate" /\ last.ok /\ ~aborted
    /\ last.req.dedicated /\ last.req.size <= PreferredSize(last.req)
    /\ BlockAt(last.a.m_type_index, last.a.m_block_index).m_size = last.req.size
    /\ \E ix \in LiveBlocks :
        /\ ix[1] = last.a.m_type_index /\ ix[2] # last.a.m_block_index
        /\ FreeBytes(BlockAt(ix[1], ix[2])) >= last.req.size

----------------------------------------------------------------------------
(* Mapped memory *)

MapCountBits == 8
MapMaxTokens == 2
MapMaxCounter == 4
MapSizes == 1 .. 2
MapAlignments == {1, 2}
Bytes == {"a", "b"}
MapResults == {VK_SUCCESS}

\* a host pointer: the mapping of a memory object and a byte offset into it
Pointer(base, offset) == [base |-> base, offset |-> offset]

NullPointer == Pointer(nullptr, 0)

\* the source buffers of len bytes
Buffers(len) == [1 .. len -> Bytes]

IsHostVisible_Always(type_index) == TRUE

\* m_types[a.m_type_index].propertyFlags & VK_MEMORY_PROPERTY_HOST_VISIBLE_BIT
IsHostVisible(type_index) == HOST_VISIBLE \in m_types[type_index].propertyFlags

\* Allocator::map_memory with the offset of the token left out
map_memory_NoOffset(block, a, res) ==
    IF IsHostVisible(a.m_type_index)
    THEN IF block.m_address = nullptr
         THEN IF res # VK_SUCCESS
              THEN [block |-> block, address |-> NullPointer, abort |-> TRUE,
                    calls |-> <<NativeCall("vkMapMemory", block.m_handle, 0,
                                           a.m_type_index, res)>>]
              ELSE [block |-> [block EXCEPT !.m_address = block.m_handle, !.m_map_count = 1],
                    address |-> Pointer(block.m_handle, 0), abort |-> FALSE,
                    calls |-> <<NativeCall("vkMapMemory", block.m_handle, 0,
                                           a.m_type_index, res)>>]
         ELSE [block |-> [block EXCEPT !.m_map_count = (@ + 1) % Pow2(MapCountBits)],
               address |-> Pointer(block.m_address, 0), abort |-> FALSE,
               calls |-> <<>>]
    ELSE [block |-> block, address |-> NullPointer, abort |-> FALSE, calls |-> <<>>]

\* Allocator::map_memory(const SingleAllocation& a) on the token's block; res
\* is the driver's answer to vkMapMemory should it be called. The address the
\* driver maps a memory object at is named by the object's handle.
map_memory(block, a, res) ==
    IF IsHostVisible(a.m_type_index)
    THEN IF block.m_address = nullptr
         THEN IF res # VK_SUCCESS
              THEN [block |-> block, address |-> NullPointer, abort |-> TRUE,
                    calls |-> <<NativeCall("vkMapMemory", block.m_handle, 0,
                                           a.m_type_index, res)>>]
              ELSE [block |-> [block EXCEPT !.m_address = block.m_handle, !.m_map_count = 1],
                    address |-> Pointer(block.m_handle, a.m_offset), abort |-> FALSE,
                    calls |-> <<NativeCall("vkMapMemory", block.m_handle, 0,
                                           a.m_type_index, res)>>]
         ELSE [block |-> [block EXCEPT !.m_map_count = (@ + 1) % Pow2(MapCountBits)],
               address |-> Pointer(block.m_address, a.m_offset), abort |-> FALSE,
               calls |-> <<>>]
    ELSE [block |-> block, address |-> NullPointer, abort |-> FALSE, calls |-> <<>>]

\* Allocator::unmap_memory(const SingleAllocation& a) on the token's block
unmap_memory(block, a) ==
    IF block.m_address # nullptr
    THEN IF block.m_map_count = 1
         THEN [block |-> [block EXCEPT !.m_map_count = 0, !.m_address = nullptr],
               calls |-> <<NativeCall("vkUnmapMemory", block.m_handle, 0,
                                      a.m_type_index, VK_SUCCESS)>>]
         ELSE [block |-> [block EXCEPT !.m_map_count = (@ - 1) % Pow2(MapCountBits)],
               calls |-> <<>>]
    ELSE [block |-> block, calls |-> <<>>]

\* memcpy(dst_addr, src, len) into the mapped memory object
memcpy(mem, dst_addr, src, len) ==
    [mem EXCEPT ![dst_addr.base] =
        [i \in DOMAIN @ |-> IF i >= dst_addr.offset /\ i < dst_addr.offset + len
                            THEN src[i - dst_addr.offset + 1]
                            ELSE @[i]]]

\* the len bytes read at a host pointer
ReadBytes(mem, addr, len) == [i \in 1 .. len |-> mem[addr.base][addr.offset + i - 1]]

\* the write order with the token's entry, if any, replaced by a last one
Rewritten(a, src) == Append(SelectSeq(written, LAMBDA w : w.a # a), [a |-> a, src |-> src])

\* Allocator::write_mapped(const SingleAllocation& dst, const void* src, size_t len)
\* with a token the caller holds and len at most the size it was requested with;
\* memcpy to the null pointer of a kind that is not host-visible ends the process
WriteMapped ==
    \E dst \in tokens, res \in MapResults :
        \E len \in 1 .. RequestedSize(dst) :
            \E src \in Buffers(len) :
              \E m \in {map_memory(BlockAt(dst.m_type_index, dst.m_block_index), dst, res)} :
                LET u == unmap_memory(m.block, dst)
                    crash == m.abort \/ m.address = NullPointer
                IN /\ ~aborted
                   /\ native' = (IF crash THEN m.calls ELSE m.calls \o u.calls)
                   /\ last' = [op |-> "write", req |-> NoRequest, ok |-> ~crash, a |-> dst]
                   /\ aborted' = crash
                   /\ IF crash
                      THEN UNCHANGED <<m_pools, memory, written>>
                      ELSE /\ m_pools' = [m_pools EXCEPT
                                            ![dst.m_type_index][dst.m_block_index] = u.block]
                           /\ memory' = memcpy(memory, m.address, src, len)
                           /\ written' = Rewritten(dst, src)
                   /\ UNCHANGED <<config, m_retiring, sync, tokens, stale, maps>>

WrittenTo(a) == {i \in DOMAIN written : written[i].a = a}

\* map_memory(a), a read of as many bytes as were last written through a, and
\* unmap_memory(a)
ReadMapped ==
    \E a \in tokens, res \in MapResults :
        \E i \in WrittenTo(a) :
          \E m \in {map_memory(BlockAt(a.m_type_index, a.m_block_index), a, res)} :
            LET u == unmap_memory(m.block, a)
                crash == m.abort \/ m.address = NullPointer
            IN /\ ~aborted
               /\ native' = (IF crash THEN m.calls ELSE m.calls \o u.calls)
               /\ aborted' = crash
               /\ IF crash
                  THEN /\ last' = [op |-> "read", req |-> NoRequest, ok |-> FALSE, a |-> a]
                       /\ UNCHANGED m_pools
                  ELSE /\ last' = [op |-> "read", req |-> NoRequest, ok |-> TRUE, a |-> a,
                                   data |-> ReadBytes(memory, m.address, Len(written[i].src))]
                       /\ m_pools' = [m_pools EXCEPT
                                        ![a.m_type_index][a.m_block_index] = u.block]
               /\ UNCHANGED <<config, m_retiring, sync, tokens, memory, written, stale, maps>>

MapAllocate ==
    AllocateBufferWith(MapSizes, MapAlignments, {"HostLocal"}, TypeBitSets, {FALSE}, {0},
                       MapMaxTokens, MapMaxCounter)

NextMap == MapAllocate \/ FreeToken \/ WriteMapped \/ ReadMapped

SpecMap == Init /\ [][NextMap]_vars

\* C10: on a host-visible kind, the bytes read through map_memory(token) are
\* exactly the src last written through write_mapped(token, src, len) with len
\* at most the token's requested size, whatever was written through the other
\* live tokens of the same block in between.
WriteReadRoundTrip ==
    (last.op = "read" /\ IsHostVisible(last.a.m_type_index)) =>
        /\ last.ok
        /\ \A i \in WrittenTo(last.a) : last.data = written[i].src

\* C10 witness: a token was written, then another live token of the same
\* block, and the first one reads back what was written through it
WriteReadWitness ==
    /\ last.op = "read" /\ last.ok
    /\ \E i, j \in DOMAIN written :
        /\ i < j
        /\ written[i].a = last.a
        /\ written[j].a.m_memory = last.a.m_memory
        /\ written[j].a \in tokens
        /\ last.data = written[i].src
        /\ Len(last.data) = RequestedSize(last.a)
        /\ written[j].a.m_offset > last.a.m_offset

----------------------------------------------------------------------------
(* Callers that map and unmap the tokens of a block *)

CountMaxTokens == 2
CountMaxCounter == 4
CountSizes == {Half - 1}
CountUsages == {"DeviceLocal", "HostLocal"}

\* enough outstanding maps for the 8-bit count of a block to come round
MaxMaps == Pow2(MapCountBits) + 2

Outstanding(handle) == IF handle \in DOMAIN maps THEN maps[handle] ELSE 0

CountAllocate ==
    AllocateBufferWith(CountSizes, {1}, CountUsages, TypeBitSets, {FALSE}, {0},
                       CountMaxTokens, CountMaxCounter)

\* Allocator::map_memory(const SingleAllocation& a) with a token some caller
\* holds; the whole body runs under the lock of the token's pool
MapMemory ==
    \E a \in tokens, res \in MapResults :
      \E m \in {map_memory(BlockAt(a.m_type_index, a.m_block_index), a, res)} :
        /\ ~aborted
        /\ Outstanding(a.m_memory) < MaxMaps
        /\ m_pools' = [m_pools EXCEPT ![a.m_type_index][a.m_block_index] = m.block]
        /\ native' = m.calls
        /\ last' = [op |-> "map", req |-> NoRequest, ok |-> m.address # NullPointer, a |-> a,
                    address |-> m.address]
        /\ maps' = (IF m.address # NullPointer
                    THEN (a.m_memory :> Outstanding(a.m_memory) + 1) @@ maps
                    ELSE maps)
        /\ aborted' = m.abort
        /\ UNCHANGED <<config, m_retiring, sync, tokens, memory, written, stale>>

\* Allocator::unmap_memory(const SingleAllocation& a) by a caller whose
\* map_memory on the block is outstanding and whose block is still mapped;
\* the whole body runs under the lock of the token's pool
UnmapMemory ==
    \E a \in tokens :
      \E u \in {unmap_memory(BlockAt(a.m_type_index, a.m_block_index), a)} :
        /\ ~aborted
        /\ Outstanding(a.m_memory) > 0
        /\ BlockAt(a.m_type_index, a.m_block_index).m_address # nullptr
        /\ m_pools' = [m_pools EXCEPT ![a.m_type_index][a.m_block_index] = u.block]
        /\ native' = u.calls
        /\ last' = [op |-> "unmap", req |-> NoRequest, ok |-> TRUE, a |-> a]
        /\ maps' = [maps EXCEPT ![a.m_memory] = @ - 1]
        /\ UNCHANGED <<config, m_retiring, sync, tokens, memory, written, stale, aborted>>

NextCount == CountAllocate \/ MapMemory \/ UnmapMemory

SpecCount == Init /\ [][NextCount]_vars

\* C18: on a host-visible block the native map call is made by exactly the
\* map_memory calls that find the block unmapped, a map_memory on a mapped
\* block changes nothing but the count, and the native unmap call is made by
\* exactly the unmap_memory calls that bring the outstanding maps to zero.
MapCountProtocol ==
    [][LET a == last'.a
           old == BlockAt(a.m_type_index, a.m_block_index)
           new == m_pools'[a.m_type_index][a.m_block_index]
       IN /\ (last'.op = "map" /\ IsHostVisible(a.m_type_index)) =>
                /\ (CallsOf(native', "vkMapMemory") # <<>>) <=> (Outstanding(a.m_memory) = 0)
                /\ Outstanding(a.m_memory) > 0 =>
                        new = [old EXCEPT !.m_map_count = new.m_map_count]
          /\ last'.op = "unmap" =>
                (CallsOf(native', "vkUnmapMemory") # <<>>) <=> (maps'[a.m_memory] = 0)]_vars

\* C19: map_memory with a token of a kind that is not host-visible returns
\* null, makes no native call and leaves the block as it was.
MapOfHiddenKindIsNull ==
    [][(last'.op = "map" /\ ~(HOST_VISIBLE \in m_types[last'.a.m_type_index].propertyFlags))
            => (/\ last'.address = NullPointer
                /\ native' = <<>>
                /\ m_pools' = m_pools /\ maps' = maps /\ ~aborted')]_vars

\* C19 witness: map_memory returned null for a device-local token while a
\* host-visible block was mapped
MapOfHiddenKindWitness ==
    /\ last.op = "map" /\ last.address = NullPointer /\ ~aborted
    /\ DEVICE_LOCAL \in m_types[last.a.m_type_index].propertyFlags
    /\ HOST_VISIBLE \notin m_types[last.a.m_type_index].propertyFlags
    /\ BlockAt(last.a.m_type_index, last.a.m_block_index).m_address = nullptr
    /\ \E ix \in LiveBlocks : BlockAt(ix[1], ix[2]).m_address # nullptr

----------------------------------------------------------------------------
(* Callers that free a token twice, or free an invalid token *)

MisuseMaxTokens == 2
MisuseMaxCounter == 4
MaxRepeat == 2
MisuseSizes == {Half - 1, Pow2(HostBlockShift)}

MisuseAllocate ==
    AllocateBufferWith(MisuseSizes, {1}, {"HostLocal"}, TypeBitSets, {FALSE}, {0},
                       MisuseMaxTokens, MisuseMaxCounter)

FreeAndKeep == FreeTokenWith({TRUE})

\* Allocator::free(SingleAllocation& a) with the copy of a token that was
\* freed before
FreeAgain ==
    \E a \in stale :
      \E r \in {Allocator_free(a)} :
           /\ ~aborted
           /\ m_pools' = [m_pools EXCEPT ![a.m_type_index] = r.pool]
           /\ memory' = MemoryAfter(r.calls)
           /\ maps' = MapsAfter(r.calls)
           /\ native' = r.calls
           /\ last' = [op |-> "free_again", req |-> NoRequest, ok |-> ~r.abort, a |-> a]
           /\ aborted' = r.abort
           /\ UNCHANGED <<config, m_retiring, sync, tokens, written, stale>>

\* how often in a row free was called with an invalid token, up to MaxRepeat
Repeated == IF last.op = "free_invalid" /\ last.n < MaxRepeat THEN last.n + 1 ELSE 1

\* Allocator::free(SingleAllocation& a) with a default-constructed token
FreeInvalid ==
    \E a \in {InvalidAllocation} :
      \E r \in {Allocator_free(a)} :
           /\ ~aborted
           /\ m_pools' = [m_pools EXCEPT ![a.m_type_index] = r.pool]
           /\ memory' = MemoryAfter(r.calls)
           /\ maps' = MapsAfter(r.calls)
           /\ native' = r.calls
           /\ last' = [op |-> "free_invalid", req |-> NoRequest, ok |-> ~r.abort, a |-> a,
                       n |-> Repeated]
           /\ aborted' = r.abort
           /\ UNCHANGED <<config, m_retiring, sync, tokens, written, stale>>

NextMisuse == MisuseAllocate \/ FreeAndKeep \/ FreeAgain \/ FreeInvalid

SpecMisuse == Init /\ [][NextMisuse]_vars

\* C11: a second Allocator::free with a token that was freed before aborts,
\* and changes no pool, block or chunk and makes no native call.
DoubleFreeAborts ==
    [][last'.op = "free_again" =>
            (aborted' /\ m_pools' = m_pools /\ native' = <<>>)]_vars

\* C12: Allocator::free with an invalid token changes no pool, block, chunk or
\* mapping and makes no native call, the first time and every time after.
InvalidFreeDoesNothing ==
    [][last'.op = "free_invalid" =>
            (/\ m_pools' = m_pools /\ memory' = memory /\ maps' = maps
             /\ tokens' = tokens /\ native' = <<>> /\ aborted' = aborted)]_vars

\* C12 witness: free was called twice in a row with an invalid token while
\* the allocator held blocks with live tokens
InvalidFreeWitness ==
    /\ last.op = "free_invalid" /\ last.n = MaxRepeat /\ ~IsValid(last.a)
    /\ tokens # {} /\ LiveBlocks # {} /\ ~aborted

----------------------------------------------------------------------------
(* The choice of the memory kind *)

KindMaxTokens == 2
KindMaxCounter == 4

\* a device with a second host-visible kind that is cached and lies on a heap
\* of the size of one preferred block
CachedTypes ==
    (0 :> [propertyFlags |-> {DEVICE_LOCAL}, heapIndex |-> 0])
    @@ (1 :> [propertyFlags |-> {HOST_VISIBLE, HOST_COHERENT}, heapIndex |-> 1])
    @@ (2 :> [propertyFlags |-> {HOST_VISIBLE, HOST_CACHED}, heapIndex |-> 2])

CachedHeaps ==
    (0 :> [size |-> 4 * Pow2(DeviceBlockShift)])
    @@ (1 :> [size |-> 4 * Pow2(HostBlockShift)])
    @@ (2 :> [size |-> Pow2(HostBlockShift)])

KindUsages == {"HostLocal", "HostCached", "LazilyAllocated"}
KindBitSets == {{0, 1, 2}, {0, 1}, {0}}

InitKinds == InitDevice(CachedTypes, CachedHeaps)

KindAllocate ==
    AllocateBufferWith(SpecSizes, {1}, KindUsages, KindBitSets, {FALSE}, {0},
                       KindMaxTokens, KindMaxCounter)

NextKinds == KindAllocate \/ FreeToken

SpecKinds == InitKinds /\ [][NextKinds]_vars

RequirementsOf(req) ==
    [size |-> req.size, alignment |-> req.alignment, memoryTypeBits |-> req.memoryTypeBits]

\* the kind of the request that has the required flags, whatever is preferred
RequiredOnlyKind(req) == find_type_index(RequirementsOf(req), required_flags(req.usage))

\* the kind allocate_defensive selects for the request
SelectedKind(req) ==
    LET all == required_flags(req.usage) \cup preferred_flags(req.usage)
        first == find_type_index(RequirementsOf(req), all)
    IN IF first # NO_SUCH_MEMTYPE THEN first
       ELSE IF preferred_flags(req.usage) # {} THEN RequiredOnlyKind(req)
       ELSE NO_SUCH_MEMTYPE

\* an allocation of the request in its required-only kind would return a
\* token, the driver granting what it is asked for
RequiredOnlyWouldServe(req) ==
    /\ RequiredOnlyKind(req) # NO_SUCH_MEMTYPE
    /\ Allocator_allocate(RequirementsOf(req),
                          required_flags(req.usage) \cup preferred_flags(req.usage),
                          RequiredOnlyKind(req), TRUE, req.dedicated,
                          DriverScript(0, VK_SUCCESS), FreshHandle).ret

\* C13: allocate reports failure only when the retry in the kind chosen by
\* the required flags alone yields nothing too: whenever a request comes back
\* without a token, no allocation in its required-only kind would have served it.
RetryWithRequiredOnly ==
    [][(last'.op = "allocate" /\ ~last'.ok /\ ~aborted')
            => ~RequiredOnlyWouldServe(last'.req)]_vars

\* C15: a request whose bitmask matches no kind with the required flags
\* aborts inside the allocator.
NoKindAborts ==
    [][(last'.op = "allocate" /\ RequiredOnlyKind(last'.req) = NO_SUCH_MEMTYPE)
            => aborted']_vars

HeapOf(type_index) == m_heaps[m_types[type_index].heapIndex]

\* C16: a request larger than the heap of its selected kind returns failure
\* without abort and without a native call, and leaves every pool and block
\* as it was.
HeapTooSmallFails ==
    [][(/\ last'.op = "allocate"
        /\ SelectedKind(last'.req) # NO_SUCH_MEMTYPE
        /\ last'.req.size > HeapOf(SelectedKind(last'.req)).size)
            => (/\ ~last'.ok /\ ~aborted' /\ native' = <<>>
                /\ m_pools' = m_pools /\ memory' = memory /\ tokens' = tokens)]_vars

\* C16 witness: a request larger than the heap of its kind came back without
\* a token while the allocator held blocks
HeapTooSmallWitness ==
    /\ last.op = "allocate" /\ ~last.ok /\ ~aborted /\ native = <<>>
    /\ SelectedKind(last.req) # NO_SUCH_MEMTYPE
    /\ last.req.size > HeapOf(SelectedKind(last.req)).size
    /\ tokens # {}

----------------------------------------------------------------------------
(* Existing blocks before a new block *)

\* the slots of the pool whose block has a Free chunk that can hold the request
Serving(pool, req) ==
    {i \in DOMAIN pool : pool[i] # nullptr_block /\ Candidates(pool[i], req) # {}}

AllocatesMemory(calls) == \E i \in DOMAIN calls : calls[i].call = "vkAllocateMemory"

ExistingFirstStep ==
    LET req == last'.req
        k == SelectedKind(req)
        flags == required_flags(req.usage) \cup preferred_flags(req.usage)
    IN (/\ last'.op = "allocate"
        /\ ~req.dedicated /\ req.size <= memblock_size(flags)
        /\ k # NO_SUCH_MEMTYPE
        /\ req.size <= HeapOf(k).size) =>
           IF Serving(m_pools[k], req) # {}
           THEN /\ last'.ok
                /\ ~AllocatesMemory(native')
                /\ last'.a.m_type_index = k
                /\ last'.a.m_block_index = Min(Serving(m_pools[k], req))
                /\ \A i \in DOMAIN m_pools[k] \ {last'.a.m_block_index} :
                      m_pools'[k][i] = m_pools[k][i]
           ELSE /\ native' # <<>>
                /\ native'[1].call = "vkAllocateMemory"

\* C26: a request that is not dedicated makes no vkAllocateMemory call if a
\* block of the selected kind has a Free chunk that can hold it: the token
\* comes from the block of the lowest such slot and no other block changes;
\* the driver is asked for a new block only if no existing block can serve.
ExistingBlocksFirst == [][ExistingFirstStep]_vars

\* C26 witness: an allocation was served by the block in slot 0, without a
\* native allocation, while the block in slot 1 could have served it too
ExistingFirstWitness ==
    /\ last.op = "allocate" /\ last.ok /\ ~last.req.dedicated
    /\ ~AllocatesMemory(native)
    /\ last.a.m_block_index = 0
    /\ 1 \in Serving(m_pools[last.a.m_type_index], last.req)

----------------------------------------------------------------------------
(* The kind of a successful allocation *)

ChoiceUsages == {"DeviceLocal", "HostToDevice", "HostCached"}
ChoiceBitSets == {{0, 1, 2}, {1, 2}, {0, 1}}

ChoiceAllocate ==
    AllocateBufferWith({Half - 1}, {1}, ChoiceUsages, ChoiceBitSets, {FALSE}, {0},
                       KindMaxTokens, KindMaxCounter)

NextChoice == ChoiceAllocate \/ FreeToken

SpecChoice == InitKinds /\ [][NextChoice]_vars

\* the kinds the bitmask accepts that have all of the flags
Matching(bits, flags) ==
    {k \in DOMAIN m_types : k \in bits /\ flags \subseteq m_types[k].propertyFlags}

KindStep ==
    LET req == last'.req
        k == last'.a.m_type_index
        required == required_flags(req.usage)
        all == required \cup preferred_flags(req.usage)
    IN (last'.op = "allocate" /\ last'.ok) =>
        /\ k \in req.memoryTypeBits
        /\ required \subseteq m_types[k].propertyFlags
        /\ IF Matching(req.memoryTypeBits, all) # {}
           THEN \A j \in Matching(req.memoryTypeBits, all) : k <= j
           ELSE \A j \in Matching(req.memoryTypeBits, required) : k <= j

\* C29: the kind of a successful allocation is accepted by the bitmask of the
\* requirements and has every required flag of the usage, and it is the
\* lowest kind that matches the flags tried: the required and the preferred
\* flags if some accepted kind has them all, else the required flags alone.
KindAcceptedAndLowest == [][KindStep]_vars

\* C29 witness: a host-to-device allocation that kinds 1 and 2 both match lies
\* in kind 1, beside another allocation in kind 1
KindWitness ==
    /\ last.op = "allocate" /\ last.ok
    /\ last.req.usage = "HostToDevice" /\ last.req.memoryTypeBits = {0, 1, 2}
    /\ last.a.m_type_index = 1
    /\ \E a \in tokens : a # last.a /\ a.m_type_index = 1

----------------------------------------------------------------------------
(* The preferred size of a block, on a device with unified memory *)

UnifiedMaxTokens == 3
UnifiedMaxCounter == 4

\* an integrated GPU: every kind is device-local and host-visible
UnifiedTypes ==
    (0 :> [propertyFlags |-> {DEVICE_LOCAL, HOST_VISIBLE, HOST_COHERENT}, heapIndex |-> 0])
    @@ (1 :> [propertyFlags |-> {DEVICE_LOCAL, HOST_VISIBLE, HOST_COHERENT, HOST_CACHED},
              heapIndex |-> 0])

UnifiedHeaps == (0 :> [size |-> 4 * Pow2(DeviceBlockShift)])

UnifiedUsages == {"DeviceLocal", "HostLocal", "HostCached"}

InitUnified == InitDeviceOf(TRUE, UnifiedTypes, UnifiedHeaps)

UnifiedAllocate ==
    AllocateBufferWith({Half - 1}, {1}, UnifiedUsages, {{0, 1}}, {FALSE}, {0},
                       UnifiedMaxTokens, UnifiedMaxCounter)

NextUnified == UnifiedAllocate \/ FreeToken

SpecUnified == InitUnified /\ [][NextUnified]_vars

\* the preferred size of a block of this kind, as claimed
KindBlockSize(type_index) ==
    IF HOST_VISIBLE \in m_types[type_index].propertyFlags
    THEN Pow2(HostBlockShift) ELSE Pow2(DeviceBlockShift)

\* C30 as claimed: the first size asked of the driver for a new block of a
\* request that is not dedicated and fits either preferred size is the
\* smaller preferred size if the block's kind is host-visible and the larger
\* one if it is not, whatever the usage of the request.
BlockSizeByKind ==
    [][(/\ last'.op = "allocate"
        /\ ~last'.req.dedicated
        /\ last'.req.size <= Pow2(HostBlockShift)
        /\ native' # <<>>
        /\ native'[1].call = "vkAllocateMemory")
            => native'[1].size = KindBlockSize(native'[1].type_index)]_vars

----------------------------------------------------------------------------
(* Bulk allocation for a resource of N parallel buffers *)

BulkN == 2
BulkMaxTokens == 4
BulkMaxCounter == 4
BulkSizes == {Half - 1, Half + 1}
BulkFailures == {0, 1}

LiveHandlesIn(pools) ==
    UNION {{pools[k][i].m_handle : i \in DOMAIN pools[k]} : k \in DOMAIN pools}
        \ {VK_NULL_HANDLE}

\* the handle the driver gives to the next memory object when the pools are pools
FreshHandleIn(pools) ==
    Min({h \in 1 .. Cardinality(LiveHandlesIn(pools)) + 1 : h \notin LiveHandlesIn(pools)})

\* Allocator::allocate(VkBuffer, usage, out[i]) with an invalid out[i], after
\* the calls of st: the pools and memory objects afterwards, the calls made so
\* far and the token
AllocateMember(st, size, usage, nfail) ==
    With(allocate_defensive_in(st.pools,
                               [size |-> size, alignment |-> 1,
                                memoryTypeBits |-> DOMAIN m_types],
                               required_flags(usage), preferred_flags(usage), TRUE, FALSE,
                               DriverScript(nfail, VK_SUCCESS), FreshHandleIn(st.pools)),
         LAMBDA r :
            [ret |-> r.ret, abort |-> r.abort, out |-> r.out,
             pools |-> IF r.abort \/ r.type_index = NO_SUCH_MEMTYPE THEN st.pools
                       ELSE [st.pools EXCEPT ![r.type_index] = r.pool],
             memory |-> IF r.abort THEN st.memory ELSE MemoryAfterIn(st.memory, r.calls),
             calls |-> st.calls \o r.calls
                       \o (IF r.ret
                           THEN <<NativeCall("vkBindBufferMemory", r.out.m_memory,
                                             r.out.m_offset, r.type_index, VK_SUCCESS)>>
                           ELSE <<>>)])

FreeAll_None(st, out, i) == st

\* free(Allocation<N>&): for (SingleAllocation& s : allocation) free(s); from
\* member i on
RECURSIVE FreeAll(_, _, _)
FreeAll(st, out, i) ==
    IF i > Len(out) \/ st.abort THEN st
    ELSE With(Allocator_free_in(st.pools[out[i].m_type_index], out[i]), LAMBDA r :
            FreeAll([st EXCEPT !.pools[out[i].m_type_index] = r.pool,
                               !.memory = MemoryAfterIn(st.memory, r.calls),
                               !.calls = st.calls \o r.calls,
                               !.abort = r.abort],
                    out, i + 1))

\* Allocator::allocate(const Buffer<N>&, usage, Allocation<N>& out), from
\* member i on, with the members of out allocated so far: sizes[i] and
\* nfails[i] are the size the driver reports for buffer i and the
\* out-of-memory answers it gives to the calls made for it
RECURSIVE AllocateAll(_, _, _, _, _, _)
AllocateAll(st, out, sizes, usage, nfails, i) ==
    IF i > Len(sizes) THEN [st EXCEPT !.ret = TRUE, !.out = out]
    ELSE With(AllocateMember(st, sizes[i], usage, nfails[i]), LAMBDA r :
            IF r.abort THEN [r EXCEPT !.out = out]
            ELSE IF ~r.ret
            THEN [FreeAll(r, out, 1) EXCEPT !.ret = FALSE, !.out = out]
            ELSE AllocateAll(r, [out EXCEPT ![i] = r.out], sizes, usage, nfails, i + 1))

BulkAllocate ==
    \E sizes \in [1 .. BulkN -> BulkSizes], nfails \in [1 .. BulkN -> BulkFailures],
       usage \in Usages :
      \E r \in {AllocateAll([ret |-> TRUE, abort |-> FALSE, out |-> InvalidAllocation,
                             pools |-> m_pools, memory |-> memory, calls |-> <<>>],
                            [i \in 1 .. BulkN |-> InvalidAllocation], sizes, usage, nfails,
                            1)} :
        /\ ~aborted
        /\ Cardinality(tokens) + BulkN <= BulkMaxTokens
        /\ \A k \in DOMAIN r.pools :
              /\ Cardinality({i \in DOMAIN r.pools[k] : r.pools[k][i] # nullptr_block})
                    <= MaxBlocks
              /\ CountersWithin(r.pools[k], BulkMaxCounter)
        /\ aborted' = r.abort
        /\ native' = r.calls
        /\ last' = [op |-> "bulk", req |-> Request(sizes[1], 1, TRUE),
                    ok |-> r.ret /\ ~r.abort, a |-> InvalidAllocation, out |-> r.out]
        /\ IF r.abort
           THEN UNCHANGED <<m_pools, tokens, memory, maps>>
           ELSE /\ m_pools' = r.pools
                /\ memory' = r.memory
                /\ maps' = MapsAfter(r.calls)
                /\ tokens' = IF r.ret THEN tokens \cup {r.out[i] : i \in 1 .. BulkN}
                             ELSE tokens
        /\ UNCHANGED <<config, m_retiring, sync, written, stale>>

NextBulk == BulkAllocate \/ FreeToken

SpecBulk == Init /\ [][NextBulk]_vars

BulkStep ==
    (last'.op = "bulk" /\ ~aborted') =>
        /\ TokensMatchChunks'
        /\ IF last'.ok
           THEN /\ tokens' = tokens \cup {last'.out[i] : i \in 1 .. BulkN}
                /\ Cardinality(tokens') = Cardinality(tokens) + BulkN
           ELSE tokens' = tokens

\* C24: a bulk allocate that returns failure leaves the caller's tokens as
\* they were and, in every block, no chunk in use but those of the tokens held
\* before the call: what it had allocated for earlier members is Free again.
\* One that returns success adds one token for each member.
BulkAllOrNothing == [][BulkStep]_vars

\* C24 witness: a bulk allocate has failed at its second member after its
\* first member had been allocated and bound, while other tokens are held
BulkFailedWitness ==
    /\ last.op = "bulk" /\ ~last.ok /\ ~aborted
    /\ last.out[1] # InvalidAllocation
    /\ \E i \in DOMAIN native : native[i].call = "vkBindBufferMemory"
    /\ tokens # {}

----------------------------------------------------------------------------
(* Threads: Allocator::allocate and Allocator::free, one step per access of  *)
(* the shared state                                                          *)

ThreadMaxTokens == 3
ThreadMaxCounter == 4
ThreadMaxMaps == 2
ThreadSizes == {Half - 1}
ThreadUsages == {"DeviceLocal", "HostLocal"}

CanLock_Always(holder) == TRUE

\* std::lock_guard lck(mutex) returns once no thread holds the mutex
CanLock(holder) == holder = NoThread

PoolMutex_Shared(type_index) == 0

\* m_pool_mtx[type_index]: the mutex a call takes for the pool of this kind
PoolMutex(type_index) == type_index

\* the threads at this position of their call
At(pc) == {t \in Threads : threads[t].pc = pc}

\* the holder of the m_mtx of the block of this handle
MutexOf(handle) == IF handle \in DOMAIN m_mtx THEN m_mtx[handle] ELSE NoThread

Unlocked_Never(handle) == m_mtx

\* the block mutexes after the lock_guard of this block's m_mtx goes out of scope
Unlocked(handle) == [h \in DOMAIN m_mtx \ {handle} |-> m_mtx[h]]

\* the handle the driver gives to the memory object thread t may create: one
\* of no memory object that exists or that another call in progress may create
ThreadHandle(t) ==
    LET reserved == {threads[u].handle : u \in {v \in Threads \ {t} :
                                                  threads[v].pc \notin {"idle", "lock_pool"}}}
    IN Min({h \in 1 .. Cardinality(LiveHandles) + NumThreads :
                h \notin LiveHandles \cup reserved})

\* for (size_t i = ...; i < pool.size(); i++) { if (!pool[i]) continue; ...
\* the position of the scan of the pool from slot i on
ScanFrom(pool, i) ==
    LET live == {j \in DOMAIN pool : j >= i /\ pool[j] # nullptr_block}
    IN IF live = {} THEN [pc |-> "create", i |-> PoolSize(pool)]
       ELSE [pc |-> "fast_path", i |-> Min(live)]

\* the calls that may still split a chunk of the pool of this kind
Allocating(type_index) ==
    {u \in Threads : threads[u].op = "allocate" /\ threads[u].type_index = type_index}

\* allocate_defensive and Allocator::allocate up to the lock of the pool: the
\* choice of the kind and the check of the heap
ThreadAllocateWith(usages, max_tokens, max_counter) ==
    \E t \in Threads, size \in ThreadSizes, usage \in usages :
      \E requirements \in {[size |-> size, alignment |-> 1, memoryTypeBits |-> DOMAIN m_types]},
         flags \in {required_flags(usage) \cup preferred_flags(usage)} :
      \E type_index \in {find_type_index(requirements, flags)} :
        /\ ~aborted
        /\ threads[t].pc = "idle"
        /\ Cardinality(tokens) + Cardinality({u \in Threads : threads[u].op = "allocate"})
              < max_tokens
        /\ type_index # NO_SUCH_MEMTYPE
        /\ \A i \in DOMAIN m_pools[type_index] :
              m_pools[type_index][i].m_counter + Cardinality(Allocating(type_index))
                 < max_counter
        /\ IF HeapTooSmall(m_types[type_index].heapIndex, requirements)
           THEN /\ last' = [op |-> "allocate", req |-> Request(size, 1, TRUE), ok |-> FALSE,
                            a |-> InvalidAllocation]
                /\ UNCHANGED threads
           ELSE /\ threads' = [threads EXCEPT ![t] =
                      [Idle EXCEPT !.pc = "lock_pool", !.op = "allocate",
                                   !.requirements = requirements, !.flags = flags,
                                   !.dedicated = IsDedicated(FALSE, requirements, flags),
                                   !.type_index = type_index]]
                /\ UNCHANGED last
        /\ UNCHANGED <<config, m_retiring, m_pools, tokens, memory, written, stale, maps, native, aborted,
                       m_pool_mtx, m_mtx>>

ThreadAllocate == ThreadAllocateWith(ThreadUsages, ThreadMaxTokens, ThreadMaxCounter)

\* Allocator::free(a) up to the lock of the pool, with a token the caller
\* holds and no call in progress was given
ThreadFree ==
    \E t \in Threads, a \in tokens :
        /\ ~aborted
        /\ threads[t].pc = "idle"
        /\ \A u \in Threads : threads[u].a # a
        /\ tokens' = tokens \ {a}
        /\ threads' = [threads EXCEPT ![t] =
              IF IsValid(a)
              THEN [Idle EXCEPT !.pc = "lock_pool", !.op = "free", !.a = a,
                                !.type_index = a.m_type_index, !.i = a.m_block_index]
              ELSE Idle]
        /\ UNCHANGED <<config, m_retiring, m_pools, memory, written, stale, maps, native, last, aborted,
                       m_pool_mtx, m_mtx>>

\* what the call of the thread makes of the pool when nothing runs between
\* its steps
Sequential(th, handle) ==
    IF th.op = "allocate"
    THEN With(Allocator_allocate(th.requirements, th.flags, th.type_index, TRUE, FALSE,
                                 DriverScript(0, VK_SUCCESS), handle), LAMBDA r :
              [pool |-> r.pool, ret |-> r.ret, out |-> r.out])
    ELSE With(Allocator_free(th.a), LAMBDA r :
              [pool |-> r.pool, ret |-> TRUE, out |-> th.a])

\* std::lock_guard lck(m_pool_mtx[type_index]);
LockPool ==
    \E t \in At("lock_pool") :
      \E th \in {threads[t]} :
      \E handle \in {ThreadHandle(t)} :
        /\ ~aborted
        /\ th.pc = "lock_pool"
        /\ CanLock(m_pool_mtx[PoolMutex(th.type_index)])
        /\ m_pool_mtx' = [m_pool_mtx EXCEPT ![PoolMutex(th.type_index)] = t]
        /\ \E at \in {IF th.op = "free" THEN [pc |-> "lookup", i |-> th.i]
                      ELSE IF th.op \in {"map", "unmap"} THEN [pc |-> th.op, i |-> th.i]
                      ELSE IF th.dedicated
                      THEN [pc |-> "create", i |-> PoolSize(m_pools[th.type_index])]
                      ELSE ScanFrom(m_pools[th.type_index], 0)} :
              threads' = [threads EXCEPT ![t] =
                            [th EXCEPT !.pc = at.pc, !.i = at.i, !.handle = handle,
                                       !.expect = IF th.op \in {"allocate", "free"}
                                                  THEN Sequential(th, handle)
                                                  ELSE th.expect]]
        /\ UNCHANGED <<config, m_retiring, m_pools, tokens, memory, written, stale, maps, native, last,
                       aborted, m_mtx>>

\* DMemBlock::allocate before the lock of m_mtx: the check of the free bytes
FastPath ==
    \E t \in At("fast_path") :
      \E th \in {threads[t]} :
        /\ ~aborted
        /\ th.pc = "fast_path"
        /\ \E at \in {IF HasRoom(m_pools[th.type_index][th.i], th.requirements.size)
                      THEN [pc |-> "lock_block", i |-> th.i]
                      ELSE ScanFrom(m_pools[th.type_index], th.i + 1)} :
              threads' = [threads EXCEPT ![t] = [th EXCEPT !.pc = at.pc, !.i = at.i]]
        /\ UNCHANGED <<config, m_retiring, m_pools, tokens, memory, written, stale, maps, native, last,
                       aborted, m_pool_mtx, m_mtx>>

\* std::lock_guard lck(m_mtx); in DMemBlock::allocate and in DMemBlock::free
LockBlock ==
    \E t \in At("lock_block") :
      \E th \in {threads[t]} :
      \E handle \in {m_pools[th.type_index][th.i].m_handle} :
        /\ ~aborted
        /\ th.pc = "lock_block"
        /\ CanLock(MutexOf(handle))
        /\ m_mtx' = (handle :> t) @@ m_mtx
        /\ threads' = [threads EXCEPT ![t] =
                         [th EXCEPT !.pc = IF th.op = "allocate" THEN "carve" ELSE "merge"]]
        /\ UNCHANGED <<config, m_retiring, m_pools, tokens, memory, written, stale, maps, native, last,
                       aborted, m_pool_mtx>>

\* DMemBlock::allocate under m_mtx: the scan of the chunks, the split, and the
\* return into the loop over the blocks of the pool
Carve ==
    \E t \in At("carve") :
      \E th \in {threads[t]} :
      \E block \in {m_pools[th.type_index][th.i]} :
      \E r \in {ScanAndSplit(block, th.requirements.size, th.requirements.alignment, TRUE,
                             m_buffer_image_granularity)} :
        /\ ~aborted
        /\ th.pc = "carve"
        /\ m_pools' = [m_pools EXCEPT ![th.type_index][th.i] = r.block]
        /\ m_mtx' = Unlocked(block.m_handle)
        /\ threads' = [threads EXCEPT ![t] =
              IF r.ok
              THEN [th EXCEPT !.pc = "unlock_pool", !.ret = TRUE,
                              !.a = SingleAllocation(r.out.m_chunk_id, th.i, th.type_index,
                                                     block.m_handle, r.out.m_offset,
                                                     r.out.m_size)]
              ELSE With(ScanFrom(m_pools[th.type_index], th.i + 1), LAMBDA at :
                        [th EXCEPT !.pc = at.pc, !.i = at.i])]
        /\ UNCHANGED <<config, m_retiring, tokens, memory, written, stale, maps, native, last, aborted,
                       m_pool_mtx>>

\* Allocator::allocate after the loop over the blocks of the pool: the new
\* block, its insertion and the allocation in it
Create ==
    \E t \in At("create") :
      \E th \in {threads[t]} :
      \E pool \in {m_pools[th.type_index]} :
      \E new \in {NewBlock(th.requirements, th.flags, th.type_index, th.dedicated,
                           DriverScript(0, VK_SUCCESS), th.handle)} :
      \E ins \in {insert_block(pool, new.block)} :
      \E r \in {DMemBlock_allocate(new.block, th.requirements.size,
                                   th.requirements.alignment, TRUE,
                                   m_buffer_image_granularity)} :
        /\ ~aborted
        /\ th.pc = "create"
        /\ Cardinality({i \in DOMAIN pool : pool[i] # nullptr_block}) < MaxBlocks
        /\ aborted' = new.abort
        /\ native' = new.calls
        /\ IF new.abort
           THEN UNCHANGED <<m_pools, memory, threads>>
           ELSE /\ m_pools' = [m_pools EXCEPT ![th.type_index] =
                                  [ins.pool EXCEPT ![ins.index] = r.block]]
                /\ memory' = MemoryAfter(new.calls)
                /\ threads' = [threads EXCEPT ![t] =
                      [th EXCEPT !.pc = "unlock_pool", !.ret = r.ok, !.i = ins.index,
                                 !.a = IF r.ok
                                       THEN SingleAllocation(r.out.m_chunk_id, ins.index,
                                                             th.type_index, new.block.m_handle,
                                                             r.out.m_offset, r.out.m_size)
                                       ELSE InvalidAllocation]]
        /\ UNCHANGED <<config, m_retiring, tokens, written, stale, maps, last, m_pool_mtx, m_mtx>>

\* Allocator::free: assert(block); and DMemBlock::free before the lock of
\* m_mtx: auto it = m_chunks.find(id);
Lookup ==
    \E t \in At("lookup") :
      \E th \in {threads[t]} :
      \E block \in {m_pools[th.type_index][th.i]} :
        /\ ~aborted
        /\ th.pc = "lookup"
        /\ aborted' = (block = nullptr_block)
        /\ threads' = [threads EXCEPT ![t] =
              [th EXCEPT !.pc = IF th.a.m_chunk_id \in DOMAIN block.m_chunks
                                THEN "lock_block" ELSE "release"]]
        /\ UNCHANGED <<config, m_retiring, m_pools, tokens, memory, written, stale, maps, native, last,
                       m_pool_mtx, m_mtx>>

\* DMemBlock::free under m_mtx: the chunk is set Free and merged
Merge ==
    \E t \in At("merge") :
      \E th \in {threads[t]} :
      \E block \in {m_pools[th.type_index][th.i]} :
        /\ ~aborted
        /\ th.pc = "merge"
        /\ m_pools' = [m_pools EXCEPT ![th.type_index][th.i] =
                          DMemBlock_free(block, th.a.m_chunk_id)]
        /\ m_mtx' = Unlocked(block.m_handle)
        /\ threads' = [threads EXCEPT ![t] = [th EXCEPT !.pc = "release"]]
        /\ UNCHANGED <<config, m_retiring, tokens, memory, written, stale, maps, native, last, aborted,
                       m_pool_mtx>>

\* Allocator::free after block->free: an empty block that is not the only
\* one of its pool is released
Release ==
    \E t \in At("release") :
      \E th \in {threads[t]} :
      \E pool \in {m_pools[th.type_index]} :
      \E block \in {pool[th.i]} :
      \E calls \in {IF allocated(block) = 0
                       /\ Cardinality({i \in DOMAIN pool : pool[i] # nullptr_block}) > 1
                    THEN (IF block.m_address # nullptr
                          THEN <<NativeCall("vkUnmapMemory", block.m_handle, 0,
                                            th.type_index, VK_SUCCESS)>>
                          ELSE <<>>)
                         \o <<NativeCall("vkFreeMemory", block.m_handle, 0,
                                         th.type_index, VK_SUCCESS)>>
                    ELSE <<>>} :
        /\ ~aborted
        /\ th.pc = "release"
        /\ m_pools' = IF calls # <<>>
                      THEN [m_pools EXCEPT ![th.type_index][th.i] = nullptr_block]
                      ELSE m_pools
        /\ memory' = MemoryAfter(calls)
        /\ maps' = MapsAfter(calls)
        /\ native' = calls
        /\ threads' = [threads EXCEPT ![t] = [th EXCEPT !.pc = "unlock_pool", !.ret = TRUE]]
        /\ UNCHANGED <<config, m_retiring, tokens, written, stale, last, aborted, m_pool_mtx, m_mtx>>

\* Allocator::map_memory(a) up to the lock of the pool, with a token the
\* caller holds
ThreadMap ==
    \E t \in Threads, a \in tokens :
        /\ ~aborted
        /\ threads[t].pc = "idle"
        /\ Outstanding(a.m_memory)
              + Cardinality({u \in Threads : threads[u].op = "map"
                                               /\ threads[u].a.m_memory = a.m_memory})
              < ThreadMaxMaps
        /\ threads' = [threads EXCEPT ![t] =
              [Idle EXCEPT !.pc = "lock_pool", !.op = "map", !.a = a,
                           !.type_index = a.m_type_index, !.i = a.m_block_index]]
        /\ UNCHANGED <<config, m_retiring, m_pools, tokens, memory, written, stale, maps, native,
                       last, aborted, m_pool_mtx, m_mtx>>

\* Allocator::unmap_memory(a) up to the lock of the pool, by a caller whose
\* map_memory on the block is outstanding
ThreadUnmap ==
    \E t \in Threads, a \in tokens :
        /\ ~aborted
        /\ threads[t].pc = "idle"
        /\ Outstanding(a.m_memory)
              > Cardinality({u \in Threads : threads[u].op = "unmap"
                                               /\ threads[u].a.m_memory = a.m_memory})
        /\ threads' = [threads EXCEPT ![t] =
              [Idle EXCEPT !.pc = "lock_pool", !.op = "unmap", !.a = a,
                           !.type_index = a.m_type_index, !.i = a.m_block_index]]
        /\ UNCHANGED <<config, m_retiring, m_pools, tokens, memory, written, stale, maps, native,
                       last, aborted, m_pool_mtx, m_mtx>>

\* Allocator::map_memory under the lock of the pool
MapStep ==
    \E t \in At("map"), res \in MapResults :
      \E th \in {threads[t]} :
      \E m \in {map_memory(m_pools[th.type_index][th.i], th.a, res)} :
        /\ ~aborted
        /\ th.pc = "map"
        /\ m_pools' = [m_pools EXCEPT ![th.type_index][th.i] = m.block]
        /\ native' = m.calls
        /\ maps' = (IF m.address # NullPointer
                    THEN (th.a.m_memory :> Outstanding(th.a.m_memory) + 1) @@ maps
                    ELSE maps)
        /\ aborted' = m.abort
        /\ threads' = [threads EXCEPT ![t] =
                         [th EXCEPT !.pc = "unlock_pool", !.ret = m.address # NullPointer]]
        /\ UNCHANGED <<config, m_retiring, tokens, memory, written, stale, last, m_pool_mtx, m_mtx>>

\* Allocator::unmap_memory under the lock of the pool
UnmapStep ==
    \E t \in At("unmap") :
      \E th \in {threads[t]} :
      \E u \in {unmap_memory(m_pools[th.type_index][th.i], th.a)} :
        /\ ~aborted
        /\ th.pc = "unmap"
        /\ m_pools' = [m_pools EXCEPT ![th.type_index][th.i] = u.block]
        /\ native' = u.calls
        /\ maps' = (IF Outstanding(th.a.m_memory) > 0
                    THEN [maps EXCEPT ![th.a.m_memory] = @ - 1]
                    ELSE maps)
        /\ threads' = [threads EXCEPT ![t] = [th EXCEPT !.pc = "unlock_pool", !.ret = TRUE]]
        /\ UNCHANGED <<config, m_retiring, tokens, memory, written, stale, last, aborted,
                       m_pool_mtx, m_mtx>>

\* the return of Allocator::allocate, free, map_memory or unmap_memory: the
\* lock_guard of the pool goes out of scope and the caller has the result
UnlockPool ==
    \E t \in At("unlock_pool") :
      \E th \in {threads[t]} :
        /\ ~aborted
        /\ th.pc = "unlock_pool"
        /\ m_pool_mtx' = [m_pool_mtx EXCEPT ![PoolMutex(th.type_index)] = NoThread]
        /\ tokens' = IF th.op = "allocate" /\ th.ret THEN tokens \cup {th.a} ELSE tokens
        /\ last' = [op |-> th.op,
                    req |-> Request(th.requirements.size, th.requirements.alignment, TRUE),
                    ok |-> th.ret, a |-> th.a]
        /\ threads' = [threads EXCEPT ![t] = Idle]
        /\ UNCHANGED <<config, m_retiring, m_pools, memory, written, stale, maps, native, aborted, m_mtx>>

NextThreads ==
    \/ ThreadAllocate \/ ThreadFree \/ LockPool \/ FastPath \/ LockBlock \/ Carve
    \/ Create \/ Lookup \/ Merge \/ Release \/ UnlockPool

SpecThreads == Init /\ [][NextThreads]_vars

\* the positions of a call at which its next steps read or write the chunk
\* chain of a block of its pool
ChunkSteps == {"fast_path", "lock_block", "carve", "create", "lookup", "merge", "release"}

InChunks(t) == threads[t].pc \in ChunkSteps

\* C20: a call that is about to read or write the chunk chain of a block
\* (the check of the free bytes before m_mtx and the lookup of the chunk in
\* free included) holds the mutex of the block's pool, so that no two calls
\* are at the chunk chains of one pool at a time; the scan, split and merge
\* run under the block's m_mtx as well; and when the call returns, the pool
\* and the result are those of running the whole call at once at the moment
\* it took the pool's mutex, that is, of some sequential order of the calls.
ChunkChainAtomic ==
    /\ \A t \in Threads :
          InChunks(t) \/ threads[t].pc = "unlock_pool"
             => m_pool_mtx[threads[t].type_index] = t
    /\ \A t, u \in Threads :
          (t # u /\ InChunks(t) /\ InChunks(u))
             => threads[t].type_index # threads[u].type_index
    /\ \A t \in Threads :
          threads[t].pc \in {"carve", "merge"}
             => MutexOf(m_pools[threads[t].type_index][threads[t].i].m_handle) = t
    /\ \A t \in Threads :
          threads[t].pc = "unlock_pool"
             => /\ m_pools[threads[t].type_index] = threads[t].expect.pool
                /\ threads[t].ret = threads[t].expect.ret
                /\ threads[t].a = threads[t].expect.out

\* C20 witness: an allocate has split a chunk of a block and is about to
\* return while a free of a token of the same block waits for the pool's mutex
ChunkChainWitness ==
    \E t, u \in Threads :
        /\ threads[t].pc = "unlock_pool" /\ threads[t].op = "allocate" /\ threads[t].ret
        /\ threads[u].pc = "lock_pool" /\ threads[u].op = "free"
        /\ threads[u].type_index = threads[t].type_index
        /\ threads[u].a.m_block_index = threads[t].a.m_block_index
        /\ threads[t].a.m_chunk_id > 2

----------------------------------------------------------------------------
(* Buffers and images in the same pools *)

ImageMaxTokens == 3
ImageMaxCounter == 5
ImageSizes == {1, 2}
ImageUsages == {"DeviceLocal"}

BufferAllocate ==
    AllocateBufferWith(ImageSizes, SpecAlignments, ImageUsages, TypeBitSets, {FALSE}, {0},
                       ImageMaxTokens, ImageMaxCounter)

ImageAllocate ==
    AllocateImageWith(ImageSizes, SpecAlignments, ImageUsages, TypeBitSets, {FALSE}, {0},
                      ImageMaxTokens, ImageMaxCounter)

NextImage == BufferAllocate \/ ImageAllocate \/ FreeToken

SpecImage == Init /\ [][NextImage]_vars

\* the call that bound the resource of the last allocation
BoundBy(calls) == calls[Len(calls)].call

ClassifiedStep ==
    (last'.op = "allocate" /\ last'.ok) =>
        m_pools'[last'.a.m_type_index][last'.a.m_block_index].m_chunks[last'.a.m_chunk_id].m_ty
            = (IF BoundBy(native') = "vkBindImageMemory" THEN Image ELSE Linear)

\* C21 as claimed: the chunk of an allocation made for an image is recorded as
\* Image (opaque) and the chunk of an allocation made for a buffer as Linear.
ResourceKindRecorded == [][ClassifiedStep]_vars
----------------------------------------------------------------------------
(* The garbage collectors of the device: tokens handed over when the swapchain
   is recreated are freed some presented frames later *)

RetiringMaxTokens == 2
RetiringMaxCounter == 4
MaxRetiring == 2
RetiringSizes == {Half - 1}

VK_SUBOPTIMAL_KHR == "VK_SUBOPTIMAL_KHR"
VK_ERROR_OUT_OF_DATE_KHR == "VK_ERROR_OUT_OF_DATE_KHR"
VK_ERROR_DEVICE_LOST == "VK_ERROR_DEVICE_LOST"
SwapchainResults ==
    {VK_SUCCESS, VK_SUBOPTIMAL_KHR, VK_ERROR_OUT_OF_DATE_KHR, VK_ERROR_DEVICE_LOST}

\* the Allocations a swapchain callback can hand over: the members are
\* tokens the callers hold, N = 1 or N = 2 of them
Handovers(held) ==
    {<<>>} \cup {<<a>> : a \in held}
           \cup {<<ab[1], ab[2]>> : ab \in {p \in held \X held : p[1] # p[2]}}

\* GarbageCollector::add(Allocation<N>& x): the collector's m_allocations and
\* x afterwards
GarbageCollector_add(m_allocations, x) ==
    [m_allocations |-> m_allocations \o x,
     x |-> [i \in DOMAIN x |-> InvalidAllocation]]

\* SingleAllocation::free() of each of the collector's tokens, in order
GarbageCollector_retire(st, m_allocations) == FreeAll(st, m_allocations, 1)

Queued_Now(retirer) == [first |-> retirer, second |-> 0, passes |-> 0]

\* std::make_pair(std::move(retirer), 3); passes counts the passes of
\* present_image over the entry since it was queued
Queued(retirer) == [first |-> retirer, second |-> 3, passes |-> 0]

\* what a call of the device starts from
DeviceState ==
    [pools |-> m_pools, memory |-> memory, calls |-> <<>>, abort |-> FALSE,
     held |-> tokens, retiring |-> m_retiring, added |-> <<>>, retired |-> <<>>]

\* the branch of acquire_next_image and present_image that recreates the
\* swapchain: m_recreate_swapchain_cb(*this, retirer) hands x over
RecreateSwapchain(st, x) ==
    With(GarbageCollector_add(<<>>, x), LAMBDA r :
        [st EXCEPT !.held = (st.held \ Range(x))
                                \cup ({r.x[i] : i \in DOMAIN x} \ {InvalidAllocation}),
                   !.added = x,
                   !.retiring = Append(st.retiring, Queued(r.m_allocations))])

\* the loop of present_image over m_retiring, from entry i on; st.retiring
\* are the entries kept so far
RECURSIVE RetirePass(_, _, _)
RetirePass(st, retiring, i) ==
    IF i > Len(retiring) \/ st.abort THEN st
    ELSE IF retiring[i].second > 0
    THEN RetirePass([st EXCEPT !.retiring =
                        Append(@, [retiring[i] EXCEPT !.second = @ - 1, !.passes = @ + 1])],
                    retiring, i + 1)
    ELSE RetirePass([GarbageCollector_retire(st, retiring[i].first)
                        EXCEPT !.retired = Append(@, retiring[i])],
                    retiring, i + 1)

\* Device::acquire_next_image when vkAcquireNextImageKHR returns res
Device_acquire_next_image(st, res, x) ==
    IF res = VK_ERROR_OUT_OF_DATE_KHR THEN RecreateSwapchain(st, x)
    ELSE IF res # VK_SUCCESS /\ res # VK_SUBOPTIMAL_KHR THEN [st EXCEPT !.abort = TRUE]
    ELSE st

\* Device::present_image when vkQueuePresentKHR returns res
Device_present_image(st, res, x) ==
    With(IF res = VK_ERROR_OUT_OF_DATE_KHR \/ res = VK_SUBOPTIMAL_KHR
         THEN RecreateSwapchain(st, x)
         ELSE IF res # VK_SUCCESS THEN [st EXCEPT !.abort = TRUE]
         ELSE st,
         LAMBDA q :
            IF ~q.abort /\ (res = VK_SUCCESS \/ res = VK_SUBOPTIMAL_KHR)
            THEN RetirePass([q EXCEPT !.retiring = <<>>], q.retiring, 1)
            ELSE q)

\* the state after a call of the device that ends in r
DeviceCall(op, res, r) ==
    /\ ~aborted
    /\ Len(r.retiring) <= MaxRetiring
    /\ aborted' = r.abort
    /\ native' = r.calls
    /\ last' = [op |-> op, req |-> NoRequest, ok |-> ~r.abort, a |-> InvalidAllocation,
                res |-> res, added |-> r.added, retired |-> r.retired]
    /\ IF r.abort
       THEN UNCHANGED <<m_pools, tokens, memory, written, maps, m_retiring>>
       ELSE /\ m_pools' = r.pools
            /\ tokens' = r.held
            /\ memory' = r.memory
            /\ written' = SelectSeq(written, LAMBDA w : w.a \in r.held)
            /\ maps' = MapsAfter(r.calls)
            /\ m_retiring' = r.retiring
    /\ UNCHANGED <<config, sync, stale>>

AcquireNextImage ==
    \E res \in SwapchainResults :
      \E x \in (IF res = VK_ERROR_OUT_OF_DATE_KHR THEN Handovers(tokens) ELSE {<<>>}) :
        DeviceCall("acquire", res, Device_acquire_next_image(DeviceState, res, x))

PresentImage ==
    \E res \in SwapchainResults :
      \E x \in (IF res = VK_ERROR_OUT_OF_DATE_KHR \/ res = VK_SUBOPTIMAL_KHR
                THEN Handovers(tokens) ELSE {<<>>}) :
        DeviceCall("present", res, Device_present_image(DeviceState, res, x))

RetiringAllocate ==
    AllocateBufferWith(RetiringSizes, SpecAlignments, Usages, TypeBitSets, {FALSE}, {0},
                       RetiringMaxTokens, RetiringMaxCounter)

NextRetiring == RetiringAllocate \/ FreeToken \/ AcquireNextImage \/ PresentImage

SpecRetiring == Init /\ [][NextRetiring]_vars

\* the places of the queued tokens: <<entry, member>>
QueuedAt ==
    UNION {{<<i, j>> : j \in DOMAIN m_retiring[i].first} : i \in DOMAIN m_retiring}

QueuedToken(p) == m_retiring[p[1]].first[p[2]]

\* the token names a chunk of a block that exists in these pools and the
\* chunk is not Free
InUseIn(pools, a) ==
    /\ a.m_block_index \in DOMAIN pools[a.m_type_index]
    /\ pools[a.m_type_index][a.m_block_index] # nullptr_block
    /\ pools[a.m_type_index][a.m_block_index].m_handle = a.m_memory
    /\ a.m_chunk_id \in InUse(pools[a.m_type_index][a.m_block_index])

\* every queued token is valid and names a chunk in use, and in every block
\* the chunks in use are those of the held and of the queued tokens, each
\* named by one token in one place
QueuedTokensLive ==
    /\ \A p \in QueuedAt : QueuedToken(p) \notin tokens /\ InUseIn(m_pools, QueuedToken(p))
    /\ \A ix \in LiveBlocks :
        LET at == {p \in QueuedAt : /\ QueuedToken(p).m_type_index = ix[1]
                                    /\ QueuedToken(p).m_block_index = ix[2]}
            toks == TokensOf(ix[1], ix[2])
        IN /\ {a.m_chunk_id : a \in toks} \cup {QueuedToken(p).m_chunk_id : p \in at}
                = InUse(BlockAt(ix[1], ix[2]))
           /\ Cardinality(toks) + Cardinality(at) = Cardinality(InUse(BlockAt(ix[1], ix[2])))

RetiringStep ==
    (last'.op \in {"acquire", "present"} /\ ~aborted') =>
        /\ \A i \in DOMAIN last'.added :
              /\ last'.added[i] \notin tokens'
              /\ InUseIn(m_pools', last'.added[i])
              /\ \E p \in QueuedAt' : QueuedToken(p)' = last'.added[i]
        /\ \A i \in DOMAIN last'.retired :
              /\ last'.retired[i].passes >= 3
              /\ \A j \in DOMAIN last'.retired[i].first :
                    /\ InUseIn(m_pools, last'.retired[i].first[j])
                    /\ ~InUseIn(m_pools', last'.retired[i].first[j])
        /\ \A i \in DOMAIN m_retiring' : m_retiring'[i].passes < 3 => m_retiring'[i].second > 0
        /\ QueuedTokensLive'

\* C23: a token handed to a collector is reset in the hands of its owner and
\* its chunk stays in use while the collector is queued; a collector is
\* retired only by a pass of present_image that follows at least three
\* passes made since it was queued, and retiring it frees the chunk of each
\* of its tokens, which was in use until then; at every moment each chunk in
\* use belongs to exactly one held or queued token.
RetiringDeferred == [][RetiringStep]_vars

\* C23 witness: a pass has just retired a collector of two tokens while a
\* collector queued later, holding a token, stays queued
RetiringWitness ==
    /\ last.op = "present"
    /\ ~aborted
    /\ \E i \in DOMAIN last.retired : Len(last.retired[i].first) = 2
    /\ \E i \in DOMAIN m_retiring : Len(m_retiring[i].first) >= 1
----------------------------------------------------------------------------
(* Calls in different kinds of memory: allocate, free, map_memory and
   unmap_memory by several threads *)

IndepMaxTokens == 2
IndepMaxCounter == 3

IndepAllocate == ThreadAllocateWith(ThreadUsages, IndepMaxTokens, IndepMaxCounter)

NextIndep ==
    \/ IndepAllocate \/ ThreadFree \/ ThreadMap \/ ThreadUnmap \/ LockPool \/ FastPath
    \/ LockBlock \/ Carve \/ Create \/ Lookup \/ Merge \/ Release \/ MapStep \/ UnmapStep
    \/ UnlockPool

SpecIndep == Init /\ [][NextIndep]_vars

\* the threads whose call makes the step
Stepping == {t \in Threads : threads'[t] # threads[t]}

\* the kind of the call of thread t that makes the step
KindOfStep(t) ==
    IF threads[t].pc = "idle" THEN threads'[t].type_index ELSE threads[t].type_index

\* the handles of the blocks of the pool
BlockHandles(pool) ==
    {pool[i].m_handle : i \in {j \in DOMAIN pool : pool[j] # nullptr_block}}

\* a step of a call in kind k leaves the pool of every other kind, with its
\* blocks, their chunk chains, mappings and map counts, the mutex of that
\* pool and the mutexes of its blocks as they were
OtherKindsUntouched ==
    /\ Stepping = {} =>
          m_pools' = m_pools /\ m_pool_mtx' = m_pool_mtx /\ m_mtx' = m_mtx /\ maps' = maps
    /\ \A t \in Stepping : \A j \in DOMAIN m_pools \ {KindOfStep(t)} :
          /\ m_pools'[j] = m_pools[j]
          /\ m_pool_mtx'[j] = m_pool_mtx[j]
          /\ \A h \in BlockHandles(m_pools[j]) :
                /\ MutexOf(h)' = MutexOf(h)
                /\ Outstanding(h)' = Outstanding(h)

\* a thread that waits for the mutex of a pool or of a block waits for no
\* thread whose call is in another kind
NotBlockedAcross ==
    /\ \A t \in At("lock_pool") :
          \E holder \in {m_pool_mtx[PoolMutex(threads[t].type_index)]} :
             holder # NoThread => threads[holder].type_index = threads[t].type_index
    /\ \A t \in At("lock_block") :
          \E holder \in {MutexOf(m_pools[threads[t].type_index][threads[t].i].m_handle)} :
             holder # NoThread => threads[holder].type_index = threads[t].type_index

\* C22: every step of allocate, free, map_memory and unmap_memory for kind k
\* takes and releases no pool mutex but that of k and changes no pool, block,
\* chunk chain, mapping or block mutex of another kind, and a thread that
\* waits for a mutex waits only for a thread whose call is in the same kind.
KindsIndependent == [][OtherKindsUntouched /\ NotBlockedAcross']_vars

\* C22 witness: a thread maps a token of kind 1 under the mutex of its pool,
\* taken while another thread holds the mutex of the pool of kind 0 and the
\* mutex of a block of that pool to split a chunk
KindsWitness ==
    \E t, u \in Threads :
        /\ threads[t].pc = "carve" /\ threads[t].type_index = 0 /\ m_pool_mtx[0] = t
        /\ threads[u].pc = "map" /\ threads[u].type_index = 1 /\ m_pool_mtx[1] = u
        /\ m_pools[1][threads[u].i].m_address = nullptr
----------------------------------------------------------------------------
(* The byte range of a token against its chunk and its block *)

\* C31 as claimed: the byte range [m_offset, m_offset + m_size) of every live
\* token ends at or before the capacity of its block and lies inside the
\* range [m_offset, m_offset + m_size) of the chunk its m_chunk_id names,
\* whatever the alignment padding.
TokenInsideChunk ==
    \A a \in tokens :
        /\ a.m_offset + a.m_size <= BlockAt(a.m_type_index, a.m_block_index).m_size
        /\ ChunkOf(a).m_offset <= a.m_offset
        /\ a.m_offset + a.m_size <= ChunkOf(a).m_offset + ChunkOf(a).m_size

----------------------------------------------------------------------------
(* The blocks of the pools after a failed allocate *)

\* the native handles of the blocks of every pool
BlocksOf(pools) == [k \in DOMAIN pools |-> BlockHandles(pools[k])]

FailedAllocateStep ==
    (last'.op = "allocate" /\ ~last'.ok /\ ~aborted') =>
        /\ BlocksOf(m_pools') = BlocksOf(m_pools)
        /\ \A i \in DOMAIN native' : native'[i].call # "vkAllocateMemory"
                                       \/ native'[i].result # VK_SUCCESS

\* C32 as claimed: an allocate that returns failure has created no block: the
\* blocks of every pool are those of before the call (a block is created only
\* with a capacity of at least the requested size, and then serves the request).
FailedAllocateAddsNoBlock == [][FailedAllocateStep]_vars

----------------------------------------------------------------------------
(* The block of a live token *)

\* C33: the slot (m_type_index, m_block_index) of every live token holds a
\* block, the block's native handle is the token's m_memory, and the chunk the
\* token names is a chunk of that block that is not Free: no block is released,
\* and no slot emptied or given to another block, while a token of it lives.
LiveTokenBlockKept == \A a \in tokens : InUseIn(m_pools, a)

\* C33 witness: a free has just released the block of slot 0 of a pool to the
\* driver while a token lives in the block of slot 1 of the same pool
LiveTokenBlockWitness ==
    /\ last.op = "free" /\ ~aborted
    /\ \E i \in DOMAIN native : native[i].call = "vkFreeMemory"
    /\ last.a.m_block_index = 0
    /\ m_pools[last.a.m_type_index][0] = nullptr_block
    /\ \E a \in tokens : a.m_type_index = last.a.m_type_index /\ a.m_block_index = 1

----------------------------------------------------------------------------
(* Blocks without allocation *)

\* the slots of the pool that hold a block
BlocksIn(pool) == {i \in DOMAIN pool : pool[i] # nullptr_block}

\* C34 as claimed: a pool that holds two or more blocks holds no block whose
\* allocated() is 0: a block without allocation is the only block of its kind.
NoIdleBlockBesideAnother ==
    \A k \in DOMAIN m_pools :
        Cardinality(BlocksIn(m_pools[k])) >= 2
            => \A i \in BlocksIn(m_pools[k]) : allocated(m_pools[k][i]) > 0

----------------------------------------------------------------------------
(* What a free changes *)

\* the offset, the size and the kind of a chunk
Extent(chunk) == <<chunk.m_offset, chunk.m_size, chunk.m_ty>>

\* the freed chunk and the Free chunks next to it in the chain of the block
Touched(block, id) ==
    {id} \cup {n \in {block.m_chunks[id].m_prev, block.m_chunks[id].m_next} \ {0} :
                  block.m_chunks[n].m_ty = Free}

FreeChangesStep ==
    (last'.op = "free" /\ ~aborted') =>
        LET a == last'.a
            block == m_pools[a.m_type_index][a.m_block_index]
            after == m_pools'[a.m_type_index][a.m_block_index]
        IN /\ \A ix \in LiveBlocks \ {<<a.m_type_index, a.m_block_index>>} :
                 m_pools'[ix[1]][ix[2]] = m_pools[ix[1]][ix[2]]
           /\ after # nullptr_block =>
                 \A id \in DOMAIN block.m_chunks \ Touched(block, a.m_chunk_id) :
                    /\ id \in DOMAIN after.m_chunks
                    /\ Extent(after.m_chunks[id]) = Extent(block.m_chunks[id])
           /\ \A b \in tokens \ {a} :
                 /\ InUseIn(m_pools', b)
                 /\ Extent(m_pools'[b.m_type_index][b.m_block_index].m_chunks[b.m_chunk_id])
                       = Extent(ChunkOf(b))

\* C35: a free of a token the caller holds changes, of all the chunks of all
\* the blocks, only the token's chunk and the Free chunks next to it in the
\* chain: every other chunk keeps its offset, size and kind, and so does the
\* chunk of every other live token, in the same block and in the other blocks.
FreeChangesOnlyNeighbours == [][FreeChangesStep]_vars

\* C35 witness: the chunk just freed was merged with the Free chunk after it
\* while another token lives in the same block and a third in another block
FreeChangesWitness ==
    /\ last.op = "free" /\ ~aborted
    /\ m_pools[last.a.m_type_index][last.a.m_block_index] # nullptr_block
    /\ last.a.m_chunk_id \in DOMAIN BlockAt(last.a.m_type_index, last.a.m_block_index).m_chunks
    /\ ChunkOf(last.a).m_ty = Free
    /\ ChunkOf(last.a).m_size > last.a.m_size
    /\ \E b \in tokens : b.m_type_index = last.a.m_type_index
                           /\ b.m_block_index = last.a.m_block_index
    /\ \E b \in tokens : b.m_type_index = last.a.m_type_index
                           /\ b.m_block_index # last.a.m_block_index

----------------------------------------------------------------------------
(* The map address of a block against its map count *)

\* Allocator::unmap_memory(const SingleAllocation& a) on a block that is not
\* mapped
UnmapUnmapped ==
    \E a \in tokens :
      \E u \in {unmap_memory(BlockAt(a.m_type_index, a.m_block_index), a)} :
        /\ ~aborted
        /\ BlockAt(a.m_type_index, a.m_block_index).m_address = nullptr
        /\ m_pools' = [m_pools EXCEPT ![a.m_type_index][a.m_block_index] = u.block]
        /\ native' = u.calls
        /\ last' = [op |-> "unmap", req |-> NoRequest, ok |-> TRUE, a |-> a]
        /\ maps' = (IF Outstanding(a.m_memory) > 0
                    THEN [maps EXCEPT ![a.m_memory] = @ - 1]
                    ELSE maps)
        /\ UNCHANGED <<config, m_retiring, sync, tokens, memory, written, stale, aborted>>

AddressMaxTokens == 1
AddressMaxCounter == 3

AddressAllocate ==
    AllocateBufferWith(CountSizes, {1}, CountUsages, TypeBitSets, {FALSE}, {0},
                       AddressMaxTokens, AddressMaxCounter)

NextAddress == AddressAllocate \/ MapMemory \/ UnmapMemory \/ UnmapUnmapped

SpecAddress == Init /\ [][NextAddress]_vars

\* the map address of every block is non-null exactly when its map count is
\* greater than zero
MappedIffCounted ==
    \A ix \in LiveBlocks :
        (BlockAt(ix[1], ix[2]).m_address # nullptr) <=> (BlockAt(ix[1], ix[2]).m_map_count > 0)

UnmapUnmappedStep ==
    (last'.op = "unmap" /\ BlockAt(last'.a.m_type_index, last'.a.m_block_index).m_address = nullptr)
        => (m_pools' = m_pools /\ native' = <<>>)

\* C37 as claimed: in every reachable state the map address of a block is
\* non-null exactly when its map count is greater than zero, and an
\* unmap_memory on a block that is not mapped changes no block and makes no
\* native call.
AddressIffCount == [][MappedIffCounted' /\ UnmapUnmappedStep]_vars

----------------------------------------------------------------------------
(* The order of the locks, and the return of every call *)

\* a step of a call in progress: every step but the entry of a thread into a
\* call
CallStep ==
    \/ LockPool \/ FastPath \/ LockBlock \/ Carve \/ Create \/ Lookup \/ Merge \/ Release
    \/ MapStep \/ UnmapStep \/ UnlockPool

\* the scheduler runs every thread that can take a step of its call, and a
\* thread that waits for the mutex of a pool gets it if the mutex is free
\* again and again
FairThread(t) ==
    /\ WF_vars(CallStep /\ threads'[t] # threads[t])
    /\ SF_vars(LockPool /\ threads'[t] # threads[t])

LiveMaxTokens == 2
LiveMaxCounter == 3
LiveUsages == {"HostLocal"}

LiveAllocate == ThreadAllocateWith(LiveUsages, LiveMaxTokens, LiveMaxCounter)

NextLive == LiveAllocate \/ ThreadFree \/ ThreadMap \/ ThreadUnmap \/ CallStep

SpecLive == Init /\ [][NextLive]_vars /\ \A t \in Threads : FairThread(t)

\* the pool mutexes and the block mutexes thread t holds
PoolsHeld(t) == {k \in DOMAIN m_pool_mtx : m_pool_mtx[k] = t}
BlocksHeld(t) == {h \in DOMAIN m_mtx : m_mtx[h] = t}

\* a thread that is in no call or waits for the mutex of a pool holds no
\* mutex; in a call it holds no pool mutex but that of the kind of the call;
\* and it waits for or holds the mutex of a block only under the mutex of the
\* pool of that block
LockOrder ==
    \A t \in Threads :
        /\ threads[t].pc \in {"idle", "lock_pool"} => PoolsHeld(t) = {} /\ BlocksHeld(t) = {}
        /\ PoolsHeld(t) \subseteq {PoolMutex(threads[t].type_index)}
        /\ threads[t].pc = "lock_block" =>
              PoolsHeld(t) = {PoolMutex(threads[t].type_index)} /\ BlocksHeld(t) = {}
        /\ BlocksHeld(t) # {} =>
              /\ PoolsHeld(t) = {PoolMutex(threads[t].type_index)}
              /\ BlocksHeld(t) = {m_pools[threads[t].type_index][threads[t].i].m_handle}

\* while a call is in progress some call in progress can take a step
NoDeadlock == (\E t \in Threads : threads[t].pc # "idle") => ENABLED CallStep

====
